---- MODULE Spec2Model ----
(***************************************************************************)
(* A model of tuf/api/metadata.py: the Metadata envelope with its          *)
(* signature list (from_dict, sign, verify), the Signed payload classes    *)
(* with their dict conversions, and the Root key store (add_key,           *)
(* remove_key).                                                            *)
(*                                                                         *)
(* Python values are modelled as follows.  A dict is a function whose      *)
(* domain is its key set; a list is a sequence; a set is a set; an object  *)
(* is a record of its attributes.  A call either returns or raises: its    *)
(* outcome is [kind |-> "return", val |-> v] or [kind |-> "raise",         *)
(* err |-> e].  A datetime is a whole number of days.                      *)
(***************************************************************************)
EXTENDS Integers, Sequences, FiniteSets, TLC

VARIABLES
    signatures,   \* Metadata.signatures: the list of Signature objects
    signed,       \* Metadata.signed: the payload object, NoObject before construction
    ret,          \* the last call: its name, its arguments and its outcome
    old,          \* signatures and signed as they were when the last call began
    fresh,        \* keyids whose latest sign call used the default canonicalizer
                  \* on the payload as it is now
    set_order,    \* the order in which this process iterates over a set of strings
                  \* (it follows from the string hashes, fixed when the process starts)
    storage       \* the file storage: the file at the path to_file writes to, the
                  \* temporary file of a to_file call under way and how far it got

vars == <<signatures, signed, ret, old, fresh, set_order, storage>>

(***************************************************************************)
(* Bounds                                                                  *)
(***************************************************************************)
MaxSigs == 2          \* longest signature list, of a wire record or built by sign
MaxVersion == 2       \* bump_version stops here
MaxExpires == 3       \* bump_expiration stops here, in days
MaxKeyids == 3        \* longest keyids list handed to a Role constructor

(***************************************************************************)
(* Outcomes and dicts                                                      *)
(***************************************************************************)
Return(v) == [kind |-> "return", val |-> v]

Raise(e) == [kind |-> "raise", err |-> e]

None == [none |-> TRUE]

\* an optional argument or attribute that is not None
Some(v) == [none |-> FALSE, val |-> v]

NoObject == [type |-> "none"]

EmptyDict == [k \in {} |-> None]

\* {**a, **b}: the entries of b win
Merge(a, b) == [k \in (DOMAIN a) \cup (DOMAIN b) |-> IF k \in DOMAIN b THEN b[k] ELSE a[k]]

\* what is left of d after d.pop(k) for every k in ks
Without(d, ks) == [k \in (DOMAIN d) \ ks |-> d[k]]

SeqsUpTo(S, n) == UNION {[1..m -> S] : m \in 0..n}

IsDuplicateFree(s) == \A i, j \in DOMAIN s : i # j => s[i] # s[j]

Range(s) == {s[i] : i \in DOMAIN s}

(***************************************************************************)
(* Dates.  A wire expiry string is <<days, designator>>; the only accepted *)
(* designator is "Z".                                                      *)
(***************************************************************************)
expiry_string_to_datetime(expires_str) ==
    IF expires_str[2] = "Z" THEN Return(expires_str[1]) ELSE Raise("FormatError")

\* datetime.isoformat() + "Z"
isoformat_Z(expires) == <<expires, "Z">>

\* the orders a process may iterate in over the strings of S
Orders(S) == {s \in [1..Cardinality(S) -> S] : Range(s) = S}

\* list(a_set): the elements of the set, each once, in the iteration order
ListOfSet(S) == SelectSeq(set_order, LAMBDA x : x \in S)

(***************************************************************************)
(* class Signed                                                            *)
(***************************************************************************)
\* a constructor that refuses negative versions only
Signed_init_AllowZero(signed_type, version, spec_version, expires, unrecognized_fields) ==
    IF version < 0
    THEN Raise("ValueError")
    ELSE Return([type |-> signed_type,
                 version |-> version,
                 spec_version |-> spec_version,
                 expires |-> expires,
                 unrecognized_fields |-> unrecognized_fields])

Signed_init(signed_type, version, spec_version, expires, unrecognized_fields) ==
    IF version <= 0
    THEN Raise("ValueError")
    ELSE Return([type |-> signed_type,
                 version |-> version,
                 spec_version |-> spec_version,
                 expires |-> expires,
                 unrecognized_fields |-> unrecognized_fields])

CommonKeys == {"_type", "version", "spec_version", "expires"}

common_fields_from_dict(signed_type, signed_dict) ==
    IF "_type" \notin DOMAIN signed_dict THEN Raise("KeyError")
    ELSE IF signed_dict["_type"] # signed_type THEN Raise("ValueError")
    ELSE IF "version" \notin DOMAIN signed_dict THEN Raise("KeyError")
    ELSE IF "spec_version" \notin DOMAIN signed_dict THEN Raise("KeyError")
    ELSE IF "expires" \notin DOMAIN signed_dict THEN Raise("KeyError")
    ELSE LET expires == expiry_string_to_datetime(signed_dict["expires"])
         IN  IF expires.kind = "raise"
             THEN expires
             ELSE Return(<<signed_dict["version"], signed_dict["spec_version"], expires.val>>)

common_fields_to_dict(self) ==
    Merge(("_type" :> self.type) @@
          [version |-> self.version,
           spec_version |-> self.spec_version,
           expires |-> isoformat_Z(self.expires)],
          self.unrecognized_fields)

\* is_expired with a strict comparison
is_expired_Strict(self, reference_time, utcnow) ==
    LET time == IF reference_time.none THEN utcnow ELSE reference_time.val
    IN  time > self.expires

\* reference_time is None or Some(a time); utcnow is what datetime.utcnow()
\* returns when it is called
is_expired(self, reference_time, utcnow) ==
    LET time == IF reference_time.none THEN utcnow ELSE reference_time.val
    IN  time >= self.expires

\* timedelta(days=1), the default of bump_expiration's delta, in days
DefaultDelta == 1

\* bump_expiration that adds the default day whatever delta is
bump_expiration_FixedDay(self, delta) == [self EXCEPT !.expires = @ + DefaultDelta]

bump_expiration(self, delta) == [self EXCEPT !.expires = @ + delta]

\* bump_version that also pushes the expiry by the default day
bump_version_AndExpiry(self) ==
    [self EXCEPT !.version = @ + 1, !.expires = @ + DefaultDelta]

bump_version(self) == [self EXCEPT !.version = @ + 1]

(***************************************************************************)
(* class Key                                                               *)
(***************************************************************************)
Key_init(keytype, scheme, keyval, unrecognized_fields) ==
    IF "public" \notin DOMAIN keyval \/ keyval["public"] = ""
    THEN Raise("ValueError")
    ELSE Return([keytype |-> keytype, scheme |-> scheme, keyval |-> keyval,
                 unrecognized_fields |-> unrecognized_fields])

Key_from_dict(key_dict) ==
    IF "keytype" \notin DOMAIN key_dict THEN Raise("KeyError")
    ELSE IF "scheme" \notin DOMAIN key_dict THEN Raise("KeyError")
    ELSE IF "keyval" \notin DOMAIN key_dict THEN Raise("KeyError")
    ELSE Key_init(key_dict["keytype"], key_dict["scheme"], key_dict["keyval"],
                  Without(key_dict, {"keytype", "scheme", "keyval"}))

Key_to_dict(self) ==
    Merge([keytype |-> self.keytype, scheme |-> self.scheme, keyval |-> self.keyval],
          self.unrecognized_fields)

(***************************************************************************)
(* class Role                                                              *)
(***************************************************************************)
\* a constructor that takes a keyid given twice as given once
Role_init_Dedup(keyids, threshold, unrecognized_fields) ==
    Return([keyids |-> Range(keyids), threshold |-> threshold,
            unrecognized_fields |-> unrecognized_fields])

Role_init(keyids, threshold, unrecognized_fields) ==
    LET keyids_set == Range(keyids)
    IN  IF Cardinality(keyids_set) # Len(keyids)
        THEN Raise("ValueError")
        ELSE Return([keyids |-> keyids_set, threshold |-> threshold,
                     unrecognized_fields |-> unrecognized_fields])

\* from_dict that takes threshold 1 for a record without threshold
Role_from_dict_DefaultThreshold(role_dict) ==
    IF "keyids" \notin DOMAIN role_dict THEN Raise("KeyError")
    ELSE Role_init(role_dict["keyids"],
                   IF "threshold" \in DOMAIN role_dict THEN role_dict["threshold"] ELSE 1,
                   Without(role_dict, {"keyids", "threshold"}))

Role_from_dict(role_dict) ==
    IF "keyids" \notin DOMAIN role_dict THEN Raise("KeyError")
    ELSE IF "threshold" \notin DOMAIN role_dict THEN Raise("KeyError")
    ELSE Role_init(role_dict["keyids"], role_dict["threshold"],
                   Without(role_dict, {"keyids", "threshold"}))

Role_to_dict(self) ==
    Merge([keyids |-> ListOfSet(self.keyids), threshold |-> self.threshold],
          self.unrecognized_fields)

\* the outcome of a loop that converts every entry of a dict or list, given the
\* outcome for each entry: the failure of an entry, or all the converted values
Collect(outcomes) ==
    IF \E k \in DOMAIN outcomes : outcomes[k].kind = "raise"
    THEN outcomes[CHOOSE k \in DOMAIN outcomes : outcomes[k].kind = "raise"]
    ELSE Return([k \in DOMAIN outcomes |-> outcomes[k].val])

(***************************************************************************)
(* class Root                                                              *)
(***************************************************************************)
Root_init(version, spec_version, expires, consistent_snapshot, keys, roles, unrecognized_fields) ==
    LET base == Signed_init("root", version, spec_version, expires, unrecognized_fields)
    IN  IF base.kind = "raise"
        THEN base
        ELSE Return(base.val @@ [consistent_snapshot |-> consistent_snapshot,
                                 keys |-> keys, roles |-> roles])

Root_from_dict(root_dict) ==
    LET common_args == common_fields_from_dict("root", root_dict)
    IN  IF common_args.kind = "raise" THEN common_args
        ELSE IF "consistent_snapshot" \notin DOMAIN root_dict THEN Raise("KeyError")
        ELSE IF "keys" \notin DOMAIN root_dict THEN Raise("KeyError")
        ELSE IF "roles" \notin DOMAIN root_dict THEN Raise("KeyError")
        ELSE LET keys == Collect([k \in DOMAIN root_dict["keys"] |-> Key_from_dict(root_dict["keys"][k])])
                 roles == Collect([k \in DOMAIN root_dict["roles"] |-> Role_from_dict(root_dict["roles"][k])])
             IN  IF keys.kind = "raise" THEN keys
                 ELSE IF roles.kind = "raise" THEN roles
                 ELSE Root_init(common_args.val[1], common_args.val[2], common_args.val[3],
                                root_dict["consistent_snapshot"], keys.val, roles.val,
                                Without(root_dict, CommonKeys \cup
                                        {"consistent_snapshot", "keys", "roles"}))

Root_to_dict(self) ==
    Merge(common_fields_to_dict(self),
          [consistent_snapshot |-> self.consistent_snapshot,
           keys |-> [keyid \in DOMAIN self.keys |-> Key_to_dict(self.keys[keyid])],
           roles |-> [role_name \in DOMAIN self.roles |-> Role_to_dict(self.roles[role_name])]])

\* add_key that refuses a keyid the role already holds
Root_add_key_RejectPresent(self, role, keyid, key_metadata) ==
    IF role \notin DOMAIN self.roles
    THEN [outcome |-> Raise("KeyError"), self |-> self]
    ELSE IF keyid \in self.roles[role].keyids
    THEN [outcome |-> Raise("ValueError"), self |-> self]
    ELSE [outcome |-> Return(None),
          self |-> [self EXCEPT !.roles[role].keyids = @ \cup {keyid},
                                !.keys = Merge(@, keyid :> key_metadata)]]

\* add_key and remove_key: the outcome of the call and the Root it leaves
Root_add_key(self, role, keyid, key_metadata) ==
    IF role \notin DOMAIN self.roles
    THEN [outcome |-> Raise("KeyError"), self |-> self]
    ELSE [outcome |-> Return(None),
          self |-> [self EXCEPT !.roles[role].keyids = @ \cup {keyid},
                                !.keys = Merge(@, keyid :> key_metadata)]]

RemoveFromRole(self, role, keyid) == [self EXCEPT !.roles[role].keyids = @ \ {keyid}]

\* remove_key that never deletes from the key store
Root_remove_key_KeepKey(self, role, keyid) ==
    IF role \notin DOMAIN self.roles
    THEN [outcome |-> Raise("KeyError"), self |-> self]
    ELSE IF keyid \notin self.roles[role].keyids
    THEN [outcome |-> Raise("KeyError"), self |-> self]
    ELSE [outcome |-> Return(None), self |-> RemoveFromRole(self, role, keyid)]

\* remove_key that deletes from the key store without a look at the other roles
Root_remove_key_NoScan(self, role, keyid) ==
    IF role \notin DOMAIN self.roles
    THEN [outcome |-> Raise("KeyError"), self |-> self]
    ELSE IF keyid \notin self.roles[role].keyids
    THEN [outcome |-> Raise("KeyError"), self |-> self]
    ELSE LET removed == RemoveFromRole(self, role, keyid)
         IN  IF keyid \notin DOMAIN removed.keys
             THEN [outcome |-> Raise("KeyError"), self |-> removed]
             ELSE [outcome |-> Return(None),
                   self |-> [removed EXCEPT !.keys = Without(@, {keyid})]]

\* remove_key with set.discard in place of set.remove: an absent keyid passes
Root_remove_key_Discard(self, role, keyid) ==
    IF role \notin DOMAIN self.roles
    THEN [outcome |-> Raise("KeyError"), self |-> self]
    ELSE LET removed == RemoveFromRole(self, role, keyid)
         IN  IF \E r \in DOMAIN removed.roles : keyid \in removed.roles[r].keyids
             THEN [outcome |-> Return(None), self |-> removed]
             ELSE IF keyid \notin DOMAIN removed.keys
             THEN [outcome |-> Raise("KeyError"), self |-> removed]
             ELSE [outcome |-> Return(None),
                   self |-> [removed EXCEPT !.keys = Without(@, {keyid})]]

Root_remove_key(self, role, keyid) ==
    IF role \notin DOMAIN self.roles
    THEN [outcome |-> Raise("KeyError"), self |-> self]
    ELSE IF keyid \notin self.roles[role].keyids
    THEN [outcome |-> Raise("KeyError"), self |-> self]
    ELSE LET removed == RemoveFromRole(self, role, keyid)
         IN  IF \E r \in DOMAIN removed.roles : keyid \in removed.roles[r].keyids
             THEN [outcome |-> Return(None), self |-> removed]
             ELSE IF keyid \notin DOMAIN removed.keys
             THEN [outcome |-> Raise("KeyError"), self |-> removed]
             ELSE [outcome |-> Return(None),
                   self |-> [removed EXCEPT !.keys = Without(@, {keyid})]]

(***************************************************************************)
(* classes Timestamp and Snapshot                                          *)
(***************************************************************************)
Meta_init(signed_type, version, spec_version, expires, meta, unrecognized_fields) ==
    LET base == Signed_init(signed_type, version, spec_version, expires, unrecognized_fields)
    IN  IF base.kind = "raise" THEN base ELSE Return(base.val @@ [meta |-> meta])

Meta_from_dict(signed_type, meta_dict) ==
    LET common_args == common_fields_from_dict(signed_type, meta_dict)
    IN  IF common_args.kind = "raise" THEN common_args
        ELSE IF "meta" \notin DOMAIN meta_dict THEN Raise("KeyError")
        ELSE Meta_init(signed_type, common_args.val[1], common_args.val[2],
                       common_args.val[3], meta_dict["meta"],
                       Without(meta_dict, CommonKeys \cup {"meta"}))

Timestamp_from_dict(timestamp_dict) == Meta_from_dict("timestamp", timestamp_dict)

Snapshot_from_dict(snapshot_dict) == Meta_from_dict("snapshot", snapshot_dict)

Timestamp_to_dict(self) == Merge(common_fields_to_dict(self), [meta |-> self.meta])

Snapshot_to_dict(self) == Merge(common_fields_to_dict(self), [meta |-> self.meta])

\* the entry update builds: the version, and the length and hashes that are
\* not None
MetaEntry(version, length, hashes) ==
    LET with_version == [version |-> version]
        with_length == IF length.none THEN with_version
                       ELSE Merge(with_version, [length |-> length.val])
    IN  IF hashes.none THEN with_length
        ELSE Merge(with_length, [hashes |-> hashes.val])

Timestamp_update(self, version, length, hashes) ==
    [self EXCEPT !.meta = Merge(@, "snapshot.json" :> MetaEntry(version, length, hashes))]

\* f"{rolename}.json"
MetadataFn(rolename) ==
    CASE rolename = "targets" -> "targets.json"
      [] rolename = "role1" -> "role1.json"

\* update that makes meta anew with the one entry
Snapshot_update_Reset(self, rolename, version, length, hashes) ==
    [self EXCEPT !.meta = MetadataFn(rolename) :> MetaEntry(version, length, hashes)]

Snapshot_update(self, rolename, version, length, hashes) ==
    [self EXCEPT !.meta = Merge(@, MetadataFn(rolename) :> MetaEntry(version, length, hashes))]

(***************************************************************************)
(* classes DelegatedRole and Delegations                                   *)
(***************************************************************************)
\* Python truth value of an optional list, dict or object: None, the empty
\* list and the empty dict are false
Truthy(x) == ~x.none /\ DOMAIN x.val # {}

\* a constructor that refuses both lists given, empty or not
DelegatedRole_init_BothGiven(name, keyids, threshold, terminating, paths, path_hash_prefixes, unrecognized_fields) ==
    LET base == Role_init(keyids, threshold, unrecognized_fields)
    IN  IF base.kind = "raise" THEN base
        ELSE IF ~paths.none /\ ~path_hash_prefixes.none THEN Raise("ValueError")
        ELSE Return(base.val @@ [name |-> name, terminating |-> terminating,
                                 paths |-> paths,
                                 path_hash_prefixes |-> path_hash_prefixes])

DelegatedRole_init(name, keyids, threshold, terminating, paths, path_hash_prefixes, unrecognized_fields) ==
    LET base == Role_init(keyids, threshold, unrecognized_fields)
    IN  IF base.kind = "raise" THEN base
        ELSE IF Truthy(paths) /\ Truthy(path_hash_prefixes) THEN Raise("ValueError")
        ELSE Return(base.val @@ [name |-> name, terminating |-> terminating,
                                 paths |-> paths,
                                 path_hash_prefixes |-> path_hash_prefixes])

\* dict.pop(key, None)
PopOrNone(d, k) == IF k \in DOMAIN d THEN Some(d[k]) ELSE None

DelegatedRole_from_dict(role_dict) ==
    IF "name" \notin DOMAIN role_dict THEN Raise("KeyError")
    ELSE IF "keyids" \notin DOMAIN role_dict THEN Raise("KeyError")
    ELSE IF "threshold" \notin DOMAIN role_dict THEN Raise("KeyError")
    ELSE IF "terminating" \notin DOMAIN role_dict THEN Raise("KeyError")
    ELSE DelegatedRole_init(role_dict["name"], role_dict["keyids"],
                            role_dict["threshold"], role_dict["terminating"],
                            PopOrNone(role_dict, "paths"),
                            PopOrNone(role_dict, "path_hash_prefixes"),
                            Without(role_dict, {"name", "keyids", "threshold",
                                                "terminating", "paths",
                                                "path_hash_prefixes"}))

DelegatedRole_to_dict(self) ==
    LET res_dict == Merge([name |-> self.name, terminating |-> self.terminating],
                          Role_to_dict(self))
    IN  IF Truthy(self.paths)
        THEN Merge(res_dict, [paths |-> self.paths.val])
        ELSE IF Truthy(self.path_hash_prefixes)
        THEN Merge(res_dict, [path_hash_prefixes |-> self.path_hash_prefixes.val])
        ELSE res_dict

Delegations_init(keys, roles, unrecognized_fields) ==
    [keys |-> keys, roles |-> roles, unrecognized_fields |-> unrecognized_fields]

Delegations_from_dict(delegations_dict) ==
    IF "keys" \notin DOMAIN delegations_dict THEN Raise("KeyError")
    ELSE LET keys_res == Collect([k \in DOMAIN delegations_dict["keys"] |-> Key_from_dict(delegations_dict["keys"][k])])
         IN  IF keys_res.kind = "raise" THEN keys_res
             ELSE IF "roles" \notin DOMAIN delegations_dict THEN Raise("KeyError")
             ELSE LET roles_res == Collect([k \in DOMAIN delegations_dict["roles"] |-> DelegatedRole_from_dict(delegations_dict["roles"][k])])
                  IN  IF roles_res.kind = "raise" THEN roles_res
                      ELSE Return(Delegations_init(keys_res.val, roles_res.val,
                                      Without(delegations_dict, {"keys", "roles"})))

Delegations_to_dict(self) ==
    Merge([keys |-> [keyid \in DOMAIN self.keys |-> Key_to_dict(self.keys[keyid])],
           roles |-> [i \in DOMAIN self.roles |-> DelegatedRole_to_dict(self.roles[i])]],
          self.unrecognized_fields)

(***************************************************************************)
(* class Targets                                                           *)
(***************************************************************************)
Targets_init(version, spec_version, expires, targets, delegations, unrecognized_fields) ==
    LET base == Signed_init("targets", version, spec_version, expires, unrecognized_fields)
    IN  IF base.kind = "raise" THEN base
        ELSE Return(base.val @@ [targets |-> targets, delegations |-> delegations])

Targets_from_dict(targets_dict) ==
    LET common_args == common_fields_from_dict("targets", targets_dict)
    IN  IF common_args.kind = "raise" THEN common_args
        ELSE IF "targets" \notin DOMAIN targets_dict THEN Raise("KeyError")
        ELSE LET popped == PopOrNone(targets_dict, "delegations")
                 delegations == IF Truthy(popped)
                                THEN Delegations_from_dict(popped.val)
                                ELSE Return(popped)
             IN  IF delegations.kind = "raise" THEN delegations
                 ELSE Targets_init(common_args.val[1], common_args.val[2],
                                   common_args.val[3], targets_dict["targets"],
                                   IF Truthy(popped) THEN Some(delegations.val)
                                                     ELSE popped,
                                   Without(targets_dict, CommonKeys \cup
                                           {"targets", "delegations"}))

Targets_to_dict(self) ==
    LET targets_dict == Merge(common_fields_to_dict(self), [targets |-> self.targets])
    IN  IF Truthy(self.delegations)
        THEN Merge(targets_dict, [delegations |-> Delegations_to_dict(self.delegations.val)])
        ELSE targets_dict

\* update that makes targets anew with the one entry and forgets the delegations
Targets_update_Only(self, filename, fileinfo) ==
    [self EXCEPT !.targets = filename :> fileinfo, !.delegations = None]

Targets_update(self, filename, fileinfo) ==
    [self EXCEPT !.targets = Merge(@, filename :> fileinfo)]

\* self.signed.to_dict(): the method of the payload's class
to_dict(self) ==
    CASE self.type = "root" -> Root_to_dict(self)
      [] self.type = "timestamp" -> Timestamp_to_dict(self)
      [] self.type = "snapshot" -> Snapshot_to_dict(self)
      [] self.type = "targets" -> Targets_to_dict(self)

(***************************************************************************)
(* Serializers and the signing primitives                                  *)
(*                                                                         *)
(* A serializer turns the payload's dict into bytes; the bytes are         *)
(* modelled by the format together with the dict, so two payloads, or two  *)
(* formats, give different bytes.  "failing" is a custom serializer that   *)
(* raises.  The signature value an ed25519 key makes over some bytes is    *)
(* modelled by the pair of the key and the bytes; NotHex is a value that   *)
(* is no hex string ("foo"), and a key dict whose public value is          *)
(* BrokenPublic ("ffff") holds broken key material.                        *)
(***************************************************************************)
KeyIds == {"k1", "k2"}

Serializers == {"canonical", "json", "failing"}

DefaultSerializer == "canonical"

serialize(signed_serializer, signed_obj) ==
    IF signed_serializer = "failing"
    THEN Raise("SerializationError")
    ELSE Return([format |-> signed_serializer, dict |-> to_dict(signed_obj)])

Ed25519(keyid, data) == [hex |-> TRUE, by |-> keyid, over |-> data]

NotHex == [hex |-> FALSE, by |-> "", over |-> [format |-> "", dict |-> EmptyDict]]

\* the public key material of a key: the keyid is its hash, so the keyid names it
PublicOf(keyid) == keyid

BrokenPublic == "ffff"

\* the public key dict of keyid, as securesystemslib imports it
GenuineKey(keyid) == [keyid |-> keyid, scheme |-> "ed25519", public |-> PublicOf(keyid)]

Signature_init(keyid, sig) == [keyid |-> keyid, signature |-> sig]

Signature_from_dict(signature_dict) ==
    IF "keyid" \notin DOMAIN signature_dict THEN Raise("KeyError")
    ELSE IF "sig" \notin DOMAIN signature_dict THEN Raise("KeyError")
    ELSE Return(Signature_init(signature_dict["keyid"], signature_dict["sig"]))

Signature_to_dict(self) == [keyid |-> self.keyid, sig |-> self.signature]

\* Signer.sign(payload): an SSlibSigner made from a key dict
Signer_sign(signer, payload) ==
    IF signer.scheme # "ed25519"
    THEN Raise("UnsupportedAlgorithmError")
    ELSE Return(Signature_init(signer.keyid, Ed25519(signer.keyid, payload)))

\* securesystemslib.keys.verify_signature(key, signature, data)
verify_signature(key, signature, data) ==
    IF ~signature["sig"].hex THEN Raise("FormatError")
    ELSE IF key.keyid # signature["keyid"] THEN Raise("CryptoError")
    ELSE IF key.scheme # "ed25519" THEN Raise("UnsupportedAlgorithmError")
    ELSE IF key.public # PublicOf(key.keyid) THEN Raise("CryptoError")
    ELSE Return(signature["sig"] = Ed25519(key.keyid, data))

(***************************************************************************)
(* class Metadata                                                          *)
(***************************************************************************)
Metadata_init(signed_obj, signature_list) ==
    [signed |-> signed_obj, signatures |-> signature_list]

SignedTypes == {"targets", "snapshot", "timestamp", "root"}

\* a dispatch that hands a snapshot record to Timestamp and a timestamp record
\* to Snapshot
inner_cls_from_dict_Swapped(type, signed_dict) ==
    CASE type = "targets" -> Targets_from_dict(signed_dict)
      [] type = "snapshot" -> Timestamp_from_dict(signed_dict)
      [] type = "timestamp" -> Snapshot_from_dict(signed_dict)
      [] type = "root" -> Root_from_dict(signed_dict)

inner_cls_from_dict(type, signed_dict) ==
    CASE type = "targets" -> Targets_from_dict(signed_dict)
      [] type = "snapshot" -> Snapshot_from_dict(signed_dict)
      [] type = "timestamp" -> Timestamp_from_dict(signed_dict)
      [] type = "root" -> Root_from_dict(signed_dict)

Metadata_from_dict(metadata) ==
    IF "signed" \notin DOMAIN metadata THEN Raise("KeyError")
    ELSE IF "_type" \notin DOMAIN metadata["signed"] THEN Raise("KeyError")
    ELSE IF metadata["signed"]["_type"] \notin SignedTypes THEN Raise("ValueError")
    ELSE IF "signatures" \notin DOMAIN metadata THEN Raise("KeyError")
    ELSE LET sigs == Collect([k \in DOMAIN metadata["signatures"] |-> Signature_from_dict(metadata["signatures"][k])])
             inner == inner_cls_from_dict(metadata["signed"]["_type"], metadata["signed"])
         IN  IF sigs.kind = "raise" THEN sigs
             ELSE IF inner.kind = "raise" THEN inner
             ELSE Return(Metadata_init(inner.val, sigs.val))

Metadata_to_dict(self) ==
    [signatures |-> [i \in DOMAIN self.signatures |-> Signature_to_dict(self.signatures[i])],
     signed |-> to_dict(self.signed)]

\* sign with the append flag ignored: the signature is always appended
sign_AlwaysAppend(self, signer, append, signed_serializer) ==
    LET data == serialize(signed_serializer, self.signed)
        signature == IF data.kind = "raise" THEN data ELSE Signer_sign(signer, data.val)
    IN  IF signature.kind = "raise"
        THEN [outcome |-> signature, signatures |-> self.signatures]
        ELSE [outcome |-> signature,
              signatures |-> Append(self.signatures, signature.val)]

\* sign that puts an appended signature first in the list
sign_Prepend(self, signer, append, signed_serializer) ==
    LET data == serialize(signed_serializer, self.signed)
        signature == IF data.kind = "raise" THEN data ELSE Signer_sign(signer, data.val)
    IN  IF signature.kind = "raise"
        THEN [outcome |-> signature, signatures |-> self.signatures]
        ELSE [outcome |-> signature,
              signatures |-> IF append
                             THEN <<signature.val>> \o self.signatures
                             ELSE <<signature.val>>]

\* sign that empties the list, in replace mode, before it computes the signature
sign_ClearFirst(self, signer, append, signed_serializer) ==
    LET data == serialize(signed_serializer, self.signed)
        signature == IF data.kind = "raise" THEN data ELSE Signer_sign(signer, data.val)
    IN  IF signature.kind = "raise"
        THEN [outcome |-> signature,
              signatures |-> IF append THEN self.signatures ELSE <<>>]
        ELSE [outcome |-> signature,
              signatures |-> IF append
                             THEN Append(self.signatures, signature.val)
                             ELSE <<signature.val>>]

\* sign: the outcome of the call and the signature list it leaves
sign(self, signer, append, signed_serializer) ==
    LET data == serialize(signed_serializer, self.signed)
        signature == IF data.kind = "raise" THEN data ELSE Signer_sign(signer, data.val)
    IN  IF signature.kind = "raise"
        THEN [outcome |-> signature, signatures |-> self.signatures]
        ELSE [outcome |-> signature,
              signatures |-> IF append
                             THEN Append(self.signatures, signature.val)
                             ELSE <<signature.val>>]

signatures_for_keyid(self, key) ==
    SelectSeq(self.signatures, LAMBDA sig : sig.keyid = key.keyid)

\* verify without the check for several matching signatures: it takes the first
verify_FirstMatch(self, key, signed_serializer) ==
    LET matching == signatures_for_keyid(self, key)
    IN  IF matching = <<>>
        THEN [outcome |-> Raise("Error"), checked |-> FALSE]
        ELSE LET data == serialize(signed_serializer, self.signed)
             IN  IF data.kind = "raise"
                 THEN [outcome |-> data, checked |-> FALSE]
                 ELSE [outcome |-> verify_signature(key, Signature_to_dict(matching[1]),
                                                    data.val),
                       checked |-> TRUE]

\* verify whose default serializer is the wire format, not the canonical one
verify_WireFormat(self, key, signed_serializer) ==
    LET matching == signatures_for_keyid(self, key)
        used == IF signed_serializer = DefaultSerializer THEN "json" ELSE signed_serializer
    IN  IF matching = <<>>
        THEN [outcome |-> Raise("Error"), checked |-> FALSE]
        ELSE IF Len(matching) > 1
        THEN [outcome |-> Raise("Error"), checked |-> FALSE]
        ELSE LET data == serialize(used, self.signed)
             IN  IF data.kind = "raise"
                 THEN [outcome |-> data, checked |-> FALSE]
                 ELSE [outcome |-> verify_signature(key, Signature_to_dict(matching[1]),
                                                    data.val),
                       checked |-> TRUE]

\* verify that keeps the bytes of the signing and checks the signature
\* against those, not against the payload as it is now
verify_Cached(self, key, signed_serializer) ==
    LET matching == signatures_for_keyid(self, key)
    IN  IF matching = <<>>
        THEN [outcome |-> Raise("Error"), checked |-> FALSE]
        ELSE IF Len(matching) > 1
        THEN [outcome |-> Raise("Error"), checked |-> FALSE]
        ELSE LET data == serialize(signed_serializer, self.signed)
             IN  IF data.kind = "raise"
                 THEN [outcome |-> data, checked |-> FALSE]
                 ELSE [outcome |-> verify_signature(key, Signature_to_dict(matching[1]),
                                                    matching[1].signature.over),
                       checked |-> TRUE]

\* verify: the outcome of the call, and whether verify_signature was called
verify(self, key, signed_serializer) ==
    LET matching == signatures_for_keyid(self, key)
    IN  IF matching = <<>>
        THEN [outcome |-> Raise("Error"), checked |-> FALSE]
        ELSE IF Len(matching) > 1
        THEN [outcome |-> Raise("Error"), checked |-> FALSE]
        ELSE LET data == serialize(signed_serializer, self.signed)
             IN  IF data.kind = "raise"
                 THEN [outcome |-> data, checked |-> FALSE]
                 ELSE [outcome |-> verify_signature(key, Signature_to_dict(matching[1]),
                                                    data.val),
                       checked |-> TRUE]

(***************************************************************************)
(* The envelope as a state machine: a Metadata object holding a Timestamp  *)
(* payload is built by from_dict or by wrapping a new payload, and then    *)
(* signed, verified and bumped in any order.                               *)
(***************************************************************************)
Self == Metadata_init(signed, signatures)

Constructed == signed # NoObject

MetaOfTimestamp == "snapshot.json" :> [version |-> 1]

WireTypes == {"timestamp", "mirrors"}

WireVersions == {0, 1}

WireSigned(type, version) ==
    ("_type" :> type) @@
    [version |-> version, spec_version |-> "1.0.0", expires |-> isoformat_Z(1),
     meta |-> MetaOfTimestamp]

\* signature records of the wire: a malformed value, or the value the key makes
\* over the canonical bytes of the record's payload
WireSignatures(signed_dict) ==
    UNION {{[keyid |-> k, sig |-> v] :
               v \in {NotHex, Ed25519(k, [format |-> DefaultSerializer, dict |-> signed_dict])}} :
           k \in KeyIds}

WireRecords ==
    UNION {{[signatures |-> sigs, signed |-> WireSigned(t, v)] :
               sigs \in SeqsUpTo(WireSignatures(WireSigned(t, v)), MaxSigs)} :
           t \in WireTypes, v \in WireVersions}

\* the signers of the keys in use, and one whose key names an unknown scheme
Signers == {[keyid |-> k, scheme |-> "ed25519"] : k \in KeyIds} \cup
           {[keyid |-> "k1", scheme |-> "foo"]}

\* the genuine public keys, a key nobody signs with, and the keys of the keyids
\* in use with the scheme or the key material broken
VerifyKeys ==
    {GenuineKey(k) : k \in KeyIds \cup {"k3"}} \cup
    {[GenuineKey(k) EXCEPT !.scheme = "foo"] : k \in KeyIds} \cup
    {[GenuineKey(k) EXCEPT !.public = BrokenPublic] : k \in KeyIds}

VerifySerializers == {"canonical", "json"}

Snapshot_of_state == [signatures |-> signatures, signed |-> signed]

\* no file at the path and no to_file call under way
NoStorage == [pc |-> "idle", temp_file |-> None, file |-> None, storage_backend |-> "none"]

Init ==
    /\ set_order \in Orders(KeyIds)
    /\ signatures = <<>>
    /\ signed = NoObject
    /\ ret = [op |-> "none"]
    /\ storage = NoStorage
    /\ old = [signatures |-> <<>>, signed |-> NoObject]
    /\ fresh = {}

FromDict(metadata) ==
    /\ ~Constructed
    /\ LET r == Metadata_from_dict(metadata)
       IN  /\ signatures' = IF r.kind = "return" THEN r.val.signatures ELSE signatures
           /\ signed' = IF r.kind = "return" THEN r.val.signed ELSE signed
           /\ ret' = [op |-> "from_dict", args |-> metadata,
                      outcome |-> IF r.kind = "return" THEN Return("Metadata") ELSE r]
    /\ old' = Snapshot_of_state
    /\ UNCHANGED storage
    /\ UNCHANGED set_order
    /\ fresh' = {}

Wrap(version) ==
    /\ ~Constructed
    /\ LET r == Meta_init("timestamp", version, "1.0.0", 1, MetaOfTimestamp, EmptyDict)
       IN  /\ signatures' = <<>>
           /\ signed' = IF r.kind = "return" THEN r.val ELSE signed
           /\ ret' = [op |-> "init", args |-> version,
                      outcome |-> IF r.kind = "return" THEN Return("Metadata") ELSE r]
    /\ old' = Snapshot_of_state
    /\ UNCHANGED storage
    /\ UNCHANGED set_order
    /\ fresh' = {}

Sign(signer, append, signed_serializer) ==
    /\ Constructed
    /\ append => Len(signatures) < MaxSigs
    /\ LET r == sign(Self, signer, append, signed_serializer)
       IN  /\ signatures' = r.signatures
           /\ ret' = [op |-> "sign",
                      args |-> [signer |-> signer, append |-> append,
                                signed_serializer |-> signed_serializer],
                      outcome |-> r.outcome]
           /\ fresh' = IF r.outcome.kind = "raise" THEN fresh
                       ELSE IF signed_serializer = DefaultSerializer
                       THEN fresh \cup {signer.keyid}
                       ELSE fresh \ {signer.keyid}
    /\ old' = Snapshot_of_state
    /\ UNCHANGED storage
    /\ UNCHANGED set_order
    /\ UNCHANGED signed

Verify(key, signed_serializer) ==
    /\ Constructed
    /\ LET r == verify(Self, key, signed_serializer)
       IN  ret' = [op |-> "verify",
                   args |-> [key |-> key, signed_serializer |-> signed_serializer],
                   outcome |-> r.outcome, checked |-> r.checked]
    /\ old' = Snapshot_of_state
    /\ UNCHANGED storage
    /\ UNCHANGED set_order
    /\ UNCHANGED <<signatures, signed, fresh>>

BumpVersion ==
    /\ Constructed
    /\ signed.version < MaxVersion
    /\ signed' = bump_version(signed)
    /\ ret' = [op |-> "bump_version", outcome |-> Return(None)]
    /\ old' = Snapshot_of_state
    /\ UNCHANGED storage
    /\ UNCHANGED set_order
    /\ fresh' = {}
    /\ UNCHANGED signatures

Next ==
    \/ \E metadata \in WireRecords : FromDict(metadata)
    \/ \E version \in WireVersions : Wrap(version)
    \/ \E signer \in Signers, append \in BOOLEAN, ser \in Serializers :
          Sign(signer, append, ser)
    \/ \E key \in VerifyKeys, ser \in VerifySerializers : Verify(key, ser)
    \/ BumpVersion

Spec == Init /\ [][Next]_vars

(***************************************************************************)
(* The Root payload as a state machine: any Root the constructor accepts,  *)
(* changed by add_key and remove_key calls in any order.                   *)
(***************************************************************************)
RoleNames == {"root", "timestamp"}

RoleArgs == RoleNames \cup {"mirrors"}

\* the Key object from_dict builds for keyid
KeyObject(keyid) ==
    Key_init("ed25519", "ed25519", [public |-> PublicOf(keyid)], EmptyDict).val

\* the key dict a caller passes to add_key for keyid
KeyMetadata(keyid) ==
    [keytype |-> "ed25519", scheme |-> "ed25519", keyval |-> [public |-> PublicOf(keyid)]]

RoleObject(keyids) == Role_init(ListOfSet(keyids), 1, EmptyDict).val

Roots ==
    {Root_init(1, "1.0.0", 1, TRUE, keys, roles, EmptyDict).val :
        keys \in UNION {[D -> {KeyObject(k) : k \in D}] : D \in SUBSET KeyIds},
        roles \in [RoleNames -> {RoleObject(ids) : ids \in SUBSET KeyIds}]}

InitRoot ==
    /\ set_order \in Orders(KeyIds)
    /\ signatures = <<>>
    /\ signed \in Roots
    /\ ret = [op |-> "none"]
    /\ storage = NoStorage
    /\ old = [signatures |-> <<>>, signed |-> NoObject]
    /\ fresh = {}

AddKey(role, keyid) ==
    /\ LET r == Root_add_key(signed, role, keyid, KeyMetadata(keyid))
       IN  /\ signed' = r.self
           /\ ret' = [op |-> "add_key", args |-> [role |-> role, keyid |-> keyid],
                      outcome |-> r.outcome]
    /\ old' = Snapshot_of_state
    /\ UNCHANGED storage
    /\ UNCHANGED set_order
    /\ UNCHANGED <<signatures, fresh>>

RemoveKey(role, keyid) ==
    /\ LET r == Root_remove_key(signed, role, keyid)
       IN  /\ signed' = r.self
           /\ ret' = [op |-> "remove_key", args |-> [role |-> role, keyid |-> keyid],
                      outcome |-> r.outcome]
    /\ old' = Snapshot_of_state
    /\ UNCHANGED storage
    /\ UNCHANGED set_order
    /\ UNCHANGED <<signatures, fresh>>

NextRoot ==
    \/ \E role \in RoleArgs, keyid \in KeyIds : AddKey(role, keyid)
    \/ \E role \in RoleArgs, keyid \in KeyIds : RemoveKey(role, keyid)

SpecRoot == InitRoot /\ [][NextRoot]_vars

\* every keyid a role of the Root references is in the Root's key store
KeysOfRolesStored(root) ==
    \A r \in DOMAIN root.roles : root.roles[r].keyids \subseteq DOMAIN root.keys

\* the same calls, on a Root that starts with every referenced keyid in its store
InitRootStored ==
    /\ InitRoot
    /\ KeysOfRolesStored(signed)

SpecRootStored == InitRootStored /\ [][NextRoot]_vars

(***************************************************************************)
(* Decoding: Metadata.from_dict applied to wire records of the four        *)
(* payload types, with and without unrecognized fields and optional        *)
(* fields, and to records it has to refuse.                                *)
(***************************************************************************)
Extras == {EmptyDict, [foo |-> "bar"]}

CommonRecord(type, version, extra) ==
    Merge(("_type" :> type) @@
          [expires |-> isoformat_Z(1), spec_version |-> "1.0.0", version |-> version],
          extra)

KeyRecord(keyid, extra) ==
    Merge([keytype |-> "ed25519", keyval |-> [public |-> PublicOf(keyid)],
           scheme |-> "ed25519"], extra)

RoleRecord(keyids, extra) == Merge([keyids |-> keyids, threshold |-> 1], extra)

\* the lists without a repeated keyid, and one list with a keyid twice
KeyidLists == UNION {Orders(S) : S \in SUBSET KeyIds}

RepeatedKeyidList == <<"k1", "k1">>

PathsOptions == {EmptyDict, [paths |-> <<"a/*">>], [paths |-> <<>>]}

PrefixOptions == {EmptyDict, [path_hash_prefixes |-> <<"ab">>]}

DelegatedRoleRecord(keyids, paths, prefixes, extra) ==
    Merge(Merge(Merge([keyids |-> keyids, name |-> "role1", terminating |-> FALSE,
                       threshold |-> 1], paths), prefixes), extra)

DelegationsRecord(role_records, extra) ==
    Merge([keys |-> ("k1" :> KeyRecord("k1", EmptyDict)), roles |-> role_records], extra)

MetaRecord(type, version, extra) ==
    Merge(CommonRecord(type, version, extra),
          [meta |-> IF type = "snapshot"
                    THEN "targets.json" :> [version |-> 1]
                    ELSE MetaOfTimestamp])

RootRecord(version, extra, key_extra, keyids, role_extra) ==
    Merge(CommonRecord("root", version, extra),
          [consistent_snapshot |-> TRUE,
           keys |-> ("k1" :> KeyRecord("k1", key_extra)),
           roles |-> ("root" :> RoleRecord(keyids, role_extra))])

TargetFiles == "file1.txt" :> [length |-> 1]

TargetsRecord(version, extra, delegations) ==
    Merge(Merge(CommonRecord("targets", version, extra), [targets |-> TargetFiles]),
          delegations)

\* the delegations field of a targets record: absent, or one role, or no role
DelegationsOptions(paths_options, prefix_options) ==
    {EmptyDict} \cup
    {[delegations |-> DelegationsRecord(<<>>, x)] : x \in Extras} \cup
    {[delegations |-> DelegationsRecord(<<DelegatedRoleRecord(<<"k1">>, p, h, rx)>>, x)] :
        p \in paths_options, h \in prefix_options, rx \in Extras, x \in Extras}

\* delegations in which the one role has at most one of paths, path_hash_prefixes
ValidDelegations ==
    DelegationsOptions(PathsOptions, {EmptyDict}) \cup
    DelegationsOptions({EmptyDict, [paths |-> <<>>]}, PrefixOptions)

ValidSigned ==
    {MetaRecord(t, 1, x) : t \in {"timestamp", "snapshot"}, x \in Extras} \cup
    {RootRecord(1, x, kx, ids, rx) :
        x \in Extras, kx \in Extras, ids \in KeyidLists, rx \in Extras} \cup
    {TargetsRecord(1, x, d) : x \in Extras, d \in ValidDelegations}

\* delegations in which the one role has both paths and path_hash_prefixes
BothPathsDelegations ==
    {[delegations |->
        DelegationsRecord(<<DelegatedRoleRecord(<<"k1">>, [paths |-> <<"a/*">>],
                                                [path_hash_prefixes |-> <<"ab">>], rx)>>, x)] :
        rx \in Extras, x \in Extras}

InvalidSigned ==
    {MetaRecord(t, 0, EmptyDict) : t \in {"timestamp", "snapshot"}} \cup
    {MetaRecord(t, v, EmptyDict) : t \in {"mirrors", ""}, v \in {0, 1}} \cup
    {RootRecord(0, EmptyDict, EmptyDict, <<"k1">>, EmptyDict),
     RootRecord(1, EmptyDict, EmptyDict, RepeatedKeyidList, EmptyDict),
     TargetsRecord(0, EmptyDict, EmptyDict)} \cup
    {TargetsRecord(1, EmptyDict, d) : d \in BothPathsDelegations}

\* a wire record: the payload with no signature, or with one
Enveloped(signed_dict) ==
    {[signatures |-> sigs, signed |-> signed_dict] :
        sigs \in {<<>>, <<[keyid |-> "k1", sig |-> NotHex]>>}}

ValidRecords == UNION {Enveloped(d) : d \in ValidSigned}

InvalidRecords == UNION {Enveloped(d) : d \in InvalidSigned}

NextLoad == \E metadata \in ValidRecords \cup InvalidRecords : FromDict(metadata)

SpecLoad == Init /\ [][NextLoad]_vars

(***************************************************************************)
(* The payload as a state machine: a Root, Timestamp, Snapshot or Targets  *)
(* made by its constructor or by from_dict, then changed and queried by    *)
(* the methods of Signed and of its class in any order.                    *)
(***************************************************************************)
Versions == {-1} \cup WireVersions

SignedTypeNames == {"root", "timestamp", "snapshot", "targets"}

\* meta dicts a Timestamp is made with: the snapshot entry alone, the entry
\* with length and hashes, the entry beside one more, and no entry
Hashes == [sha256 |-> "ab"]

TimestampMetas ==
    {MetaOfTimestamp,
     "snapshot.json" :> [hashes |-> Hashes, length |-> 1, version |-> 1],
     MetaOfTimestamp @@ ("targets.json" :> [version |-> 1]),
     EmptyDict}

\* the constructor of the class named type, on arguments of that class
Construct(type, version, meta) ==
    CASE type = "root" ->
           Root_init(version, "1.0.0", 1, TRUE, "k1" :> KeyObject("k1"),
                     [r \in RoleNames |-> RoleObject(IF r = "root" THEN {"k1"} ELSE {})],
                     EmptyDict)
      [] type = "timestamp" -> Meta_init("timestamp", version, "1.0.0", 1, meta, EmptyDict)
      [] type = "snapshot" ->
           Meta_init("snapshot", version, "1.0.0", 1, "targets.json" :> [version |-> 1],
                     EmptyDict)
      [] type = "targets" ->
           Targets_init(version, "1.0.0", 1, TargetFiles, None, EmptyDict)

SignedRecords ==
    {[signatures |-> <<>>, signed |-> d] :
        d \in {MetaRecord(t, v, EmptyDict) :
                  t \in {"timestamp", "snapshot"}, v \in Versions} \cup
              {RootRecord(v, EmptyDict, EmptyDict, <<"k1">>, EmptyDict) : v \in Versions} \cup
              {TargetsRecord(v, EmptyDict, EmptyDict) : v \in Versions}}

Deltas == {1, 2}

Times == 0..(MaxExpires + 1)

Optional(S) == {None} \cup {Some(v) : v \in S}

New(type, version, meta) ==
    /\ ~Constructed
    /\ LET r == Construct(type, version, meta)
       IN  /\ signed' = IF r.kind = "return" THEN r.val ELSE signed
           /\ ret' = [op |-> "init", args |-> [type |-> type, version |-> version],
                      outcome |-> IF r.kind = "return" THEN Return("Signed") ELSE r]
    /\ old' = Snapshot_of_state
    /\ UNCHANGED storage
    /\ UNCHANGED set_order
    /\ UNCHANGED <<signatures, fresh>>

BumpExpiration(delta) ==
    /\ Constructed
    /\ LET days == IF delta.none THEN DefaultDelta ELSE delta.val
       IN  /\ signed.expires + days <= MaxExpires
           /\ signed' = bump_expiration(signed, days)
    /\ ret' = [op |-> "bump_expiration", args |-> delta, outcome |-> Return(None)]
    /\ old' = Snapshot_of_state
    /\ UNCHANGED storage
    /\ UNCHANGED set_order
    /\ UNCHANGED <<signatures, fresh>>

IsExpired(reference_time, utcnow) ==
    /\ Constructed
    /\ ret' = [op |-> "is_expired", args |-> reference_time, utcnow |-> utcnow,
               outcome |-> Return(is_expired(signed, reference_time, utcnow))]
    /\ old' = Snapshot_of_state
    /\ UNCHANGED storage
    /\ UNCHANGED set_order
    /\ UNCHANGED <<signatures, signed, fresh>>

TimestampUpdate(version, length, hashes) ==
    /\ signed.type = "timestamp"
    /\ signed' = Timestamp_update(signed, version, length, hashes)
    /\ ret' = [op |-> "update",
               args |-> [version |-> version, length |-> length, hashes |-> hashes],
               outcome |-> Return(None)]
    /\ old' = Snapshot_of_state
    /\ UNCHANGED storage
    /\ UNCHANGED set_order
    /\ UNCHANGED <<signatures, fresh>>

SnapshotUpdate(rolename, version, length, hashes) ==
    /\ signed.type = "snapshot"
    /\ signed' = Snapshot_update(signed, rolename, version, length, hashes)
    /\ ret' = [op |-> "update",
               args |-> [rolename |-> rolename, version |-> version,
                         length |-> length, hashes |-> hashes],
               outcome |-> Return(None)]
    /\ old' = Snapshot_of_state
    /\ UNCHANGED storage
    /\ UNCHANGED set_order
    /\ UNCHANGED signatures

TargetsUpdate(filename, fileinfo) ==
    /\ signed.type = "targets"
    /\ signed' = Targets_update(signed, filename, fileinfo)
    /\ ret' = [op |-> "update", args |-> [filename |-> filename, fileinfo |-> fileinfo],
               outcome |-> Return(None)]
    /\ old' = Snapshot_of_state
    /\ UNCHANGED storage
    /\ UNCHANGED set_order
    /\ UNCHANGED <<signatures, fresh>>

NextSigned ==
    \/ \E type \in SignedTypeNames, version \in Versions, meta \in TimestampMetas :
          New(type, version, meta)
    \/ \E metadata \in SignedRecords : FromDict(metadata)
    \/ BumpVersion
    \/ \E delta \in Optional(Deltas) : BumpExpiration(delta)
    \/ \E reference_time \in Optional(Times), utcnow \in Times :
          IsExpired(reference_time, utcnow)
    \/ \E version \in 1..2, length \in Optional({1}), hashes \in Optional({Hashes}) :
          TimestampUpdate(version, length, hashes)
    \/ \E rolename \in {"targets", "role1"}, version \in 1..2 :
          SnapshotUpdate(rolename, version, None, None) /\ UNCHANGED fresh
    \/ \E filename \in {"file1.txt", "file2.txt"} :
          TargetsUpdate(filename, [length |-> 2])
    \/ \E role \in RoleArgs, keyid \in KeyIds : signed.type = "root" /\ AddKey(role, keyid)
    \/ \E role \in RoleArgs, keyid \in KeyIds : signed.type = "root" /\ RemoveKey(role, keyid)

SpecSigned == Init /\ [][NextSigned]_vars

(***************************************************************************)
(* The Snapshot as a state machine: any of a few Snapshots, changed by     *)
(* update calls in any order.  fresh records the meta dict the Snapshot    *)
(* started with and, for every role updated so far, the arguments of the   *)
(* latest update call for it.                                              *)
(***************************************************************************)
SnapshotMetas ==
    {EmptyDict,
     "targets.json" :> [version |-> 1],
     "targets.json" :> [hashes |-> Hashes, length |-> 1, version |-> 1],
     ("targets.json" :> [version |-> 1]) @@ ("role2.json" :> [length |-> 1, version |-> 1])}

Snapshots == {Meta_init("snapshot", 1, "1.0.0", 1, meta, EmptyDict).val : meta \in SnapshotMetas}

UpdatedRoles == {"targets", "role1"}

InitSnapshot ==
    /\ set_order \in Orders(KeyIds)
    /\ signatures = <<>>
    /\ signed \in Snapshots
    /\ ret = [op |-> "none"]
    /\ storage = NoStorage
    /\ old = [signatures |-> <<>>, signed |-> NoObject]
    /\ fresh = [original |-> signed.meta, latest |-> EmptyDict]

NextSnapshot ==
    \E rolename \in UpdatedRoles, version \in 1..2,
       length \in Optional({1}), hashes \in Optional({Hashes}) :
          /\ SnapshotUpdate(rolename, version, length, hashes)
          /\ fresh' = [fresh EXCEPT !.latest =
                          Merge(@, rolename :> [version |-> version, length |-> length,
                                                hashes |-> hashes])]

SpecSnapshot == InitSnapshot /\ [][NextSnapshot]_vars

(***************************************************************************)
(* The Targets as a state machine: a Targets decoded from any valid        *)
(* record, with or without delegations and unrecognized fields, changed by *)
(* update calls in any order.                                              *)
(***************************************************************************)
TargetsObjects ==
    {Targets_from_dict(TargetsRecord(1, x, d)).val : x \in Extras, d \in ValidDelegations}

FileNames == {"file1.txt", "file2.txt"}

FileInfos == {[length |-> 1], [hashes |-> Hashes, length |-> 2]}

InitTargets ==
    /\ set_order \in Orders(KeyIds)
    /\ signatures = <<>>
    /\ signed \in TargetsObjects
    /\ ret = [op |-> "none"]
    /\ storage = NoStorage
    /\ old = [signatures |-> <<>>, signed |-> NoObject]
    /\ fresh = {}

NextTargets == \E filename \in FileNames, fileinfo \in FileInfos : TargetsUpdate(filename, fileinfo)

SpecTargets == InitTargets /\ [][NextTargets]_vars

(***************************************************************************)
(* The constructors and from_dict methods of Key, Role, DelegatedRole and  *)
(* Delegations, called on their own: each call leaves its outcome, the     *)
(* object built or the exception raised, in ret.                           *)
(***************************************************************************)
KeyidArgs == SeqsUpTo(KeyIds, MaxKeyids)

PathArgs == Optional({<<>>, <<"a/*">>})

PrefixArgs == Optional({<<>>, <<"ab">>})

RoleKeys == {"keyids", "threshold"}

DelegatedRoleKeys == {"name", "keyids", "threshold", "terminating"}

DelegationsKeys == {"keys", "roles"}

KeyKeys == {"keytype", "scheme", "keyval"}

\* the roles list of a delegations record: none, a whole role record, or a
\* role record with its name alone
RoleListNames == {"none", "whole", "broken"}

RoleList(list_name, role_extra) ==
    CASE list_name = "none" -> <<>>
      [] list_name = "whole" ->
           <<DelegatedRoleRecord(<<"k1">>, EmptyDict, EmptyDict, role_extra)>>
      [] list_name = "broken" -> <<[name |-> "role1"]>>

\* the keys dict of a delegations record: no key, a whole key record, or a
\* key record with its keytype alone
KeyMapNames == {"none", "whole", "broken"}

KeyMap(map_name) ==
    CASE map_name = "none" -> EmptyDict
      [] map_name = "whole" -> "k1" :> KeyRecord("k1", EmptyDict)
      [] map_name = "broken" -> "k1" :> [keytype |-> "ed25519"]

\* the public value of a key record's keyval: a value, the empty string, or
\* no "public" entry
Publics == {PublicOf("k1"), "", "absent"}

KeyVal(public) == IF public = "absent" THEN EmptyDict ELSE [public |-> public]

\* a constructor or from_dict call touches no object that already exists
NoObjectChanged ==
    /\ old' = Snapshot_of_state
    /\ UNCHANGED storage
    /\ UNCHANGED set_order
    /\ UNCHANGED <<signatures, signed, fresh>>

RoleInit(keyids) ==
    /\ ret' = [op |-> "Role", args |-> [keyids |-> keyids],
               outcome |-> Role_init(keyids, 1, EmptyDict)]
    /\ NoObjectChanged

DelegatedRoleInit(keyids, paths, path_hash_prefixes) ==
    /\ ret' = [op |-> "DelegatedRole",
               args |-> [keyids |-> keyids, paths |-> paths,
                         path_hash_prefixes |-> path_hash_prefixes],
               outcome |-> DelegatedRole_init("role1", keyids, 1, FALSE, paths,
                                              path_hash_prefixes, EmptyDict)]
    /\ NoObjectChanged

\* from_dict on the record of a class with the keys left_out taken out of it
RoleFromDict(keyids, extra, left_out) ==
    /\ LET role_dict == Without(RoleRecord(keyids, extra), left_out)
       IN  ret' = [op |-> "Role.from_dict", args |-> role_dict,
                   outcome |-> Role_from_dict(role_dict)]
    /\ NoObjectChanged

DelegatedRoleFromDict(paths, prefixes, extra, left_out) ==
    /\ LET role_dict == Without(DelegatedRoleRecord(<<"k1">>, paths, prefixes, extra),
                                left_out)
       IN  ret' = [op |-> "DelegatedRole.from_dict", args |-> role_dict,
                   outcome |-> DelegatedRole_from_dict(role_dict)]
    /\ NoObjectChanged

DelegationsFromDict(map_name, list_name, extra, left_out) ==
    /\ LET delegations_dict ==
               Without(Merge([keys |-> KeyMap(map_name),
                              roles |-> RoleList(list_name, extra)], extra), left_out)
       IN  ret' = [op |-> "Delegations.from_dict", args |-> delegations_dict,
                   outcome |-> Delegations_from_dict(delegations_dict)]
    /\ NoObjectChanged

KeyFromDict(public, extra, left_out) ==
    /\ LET key_dict == Without(Merge([keytype |-> "ed25519", keyval |-> KeyVal(public),
                                      scheme |-> "ed25519"], extra), left_out)
       IN  ret' = [op |-> "Key.from_dict", args |-> key_dict,
                   outcome |-> Key_from_dict(key_dict)]
    /\ NoObjectChanged

NextEntity ==
    \/ \E keyids \in KeyidArgs : RoleInit(keyids)
    \/ \E keyids \in KeyidArgs, paths \in PathArgs, path_hash_prefixes \in PrefixArgs :
          DelegatedRoleInit(keyids, paths, path_hash_prefixes)
    \/ \E keyids \in {<<"k1">>, <<"k1", "k1">>}, extra \in Extras,
          left_out \in SUBSET RoleKeys :
          RoleFromDict(keyids, extra, left_out)
    \/ \E paths \in PathsOptions, prefixes \in PrefixOptions, extra \in Extras,
          left_out \in SUBSET DelegatedRoleKeys :
          DelegatedRoleFromDict(paths, prefixes, extra, left_out)
    \/ \E map_name \in KeyMapNames, list_name \in RoleListNames, extra \in Extras,
          left_out \in SUBSET DelegationsKeys :
          DelegationsFromDict(map_name, list_name, extra, left_out)
    \/ \E public \in Publics, extra \in Extras, left_out \in SUBSET KeyKeys :
          KeyFromDict(public, extra, left_out)

SpecEntity == Init /\ [][NextEntity]_vars

(***************************************************************************)
(* Integrity records: MetaFile and TargetFile with their optional length   *)
(* and hashes, and verify_length_and_hashes as the specification and the   *)
(* test test_length_and_hash_validation describe it.  A content is a       *)
(* sequence of bytes; the digest of a content under an algorithm is the    *)
(* pair of both, so two contents or two algorithms never share a digest.   *)
(***************************************************************************)
MaxContent == 2

Bytes == {7, 8}

Contents == SeqsUpTo(Bytes, MaxContent)

SupportedAlgorithms == {"sha256", "sha512"}

\* the label 256 of the test, an algorithm name that is not a string
MalformedAlgorithms == {"256"}

hexdigest(algorithm, content) == <<algorithm, content>>

\* the digest object of the hash library for an algorithm label
digest(algorithm, content) ==
    IF algorithm \in MalformedAlgorithms THEN Raise("FormatError")
    ELSE IF algorithm \notin SupportedAlgorithms THEN Raise("UnsupportedAlgorithmError")
    ELSE Return(hexdigest(algorithm, content))

verify_length(content, expected_length) ==
    IF Len(content) # expected_length
    THEN Raise("LengthOrHashMismatchError")
    ELSE Return(None)

\* an error of the hash library surfaces as its own kind
verify_hashes_Leaky(content, expected_hashes) ==
    IF \E algo \in DOMAIN expected_hashes : digest(algo, content).kind = "raise"
    THEN digest(CHOOSE algo \in DOMAIN expected_hashes :
                    digest(algo, content).kind = "raise", content)
    ELSE IF \E algo \in DOMAIN expected_hashes :
                digest(algo, content).val # expected_hashes[algo]
    THEN Raise("LengthOrHashMismatchError")
    ELSE Return(None)

verify_hashes(content, expected_hashes) ==
    IF \E algo \in DOMAIN expected_hashes :
           \/ digest(algo, content).kind = "raise"
           \/ digest(algo, content).val # expected_hashes[algo]
    THEN Raise("LengthOrHashMismatchError")
    ELSE Return(None)

\* the length is recorded but never compared
verify_length_and_hashes_HashesOnly(self, content) ==
    IF ~self.hashes.none
    THEN verify_hashes(content, self.hashes.val)
    ELSE Return(None)

verify_length_and_hashes(self, content) ==
    IF ~self.length.none /\ verify_length(content, self.length.val).kind = "raise"
    THEN verify_length(content, self.length.val)
    ELSE IF ~self.hashes.none
    THEN verify_hashes(content, self.hashes.val)
    ELSE Return(None)

\* the hashes a record may hold for the file whose content is <<7, 8>>:
\* right ones, a wrong digest, and labels the hash library refuses
RecordedHashes ==
    {EmptyDict,
     "sha256" :> hexdigest("sha256", <<7, 8>>),
     ("sha256" :> hexdigest("sha256", <<7, 8>>)) @@ ("sha512" :> hexdigest("sha512", <<7, 8>>)),
     "sha256" :> hexdigest("sha256", <<8, 7>>),
     ("sha256" :> hexdigest("sha256", <<7, 8>>)) @@ ("sha512" :> hexdigest("sha512", <<7>>)),
     "unsupported-alg" :> hexdigest("sha256", <<7, 8>>),
     "256" :> hexdigest("sha256", <<7, 8>>)}

RecordedLengths == 1..MaxContent

IntegrityClasses == {"MetaFile", "TargetFile"}

\* a MetaFile carries a version beside length and hashes, a TargetFile does not
IntegrityRecord(class, length, hashes) ==
    IF class = "MetaFile"
    THEN [type |-> class, version |-> 1, length |-> length, hashes |-> hashes]
    ELSE [type |-> class, length |-> length, hashes |-> hashes]

InitIntegrity ==
    /\ set_order \in Orders(KeyIds)
    /\ signatures = <<>>
    /\ signed \in {IntegrityRecord(class, length, hashes) :
                       class \in IntegrityClasses,
                       length \in Optional(RecordedLengths),
                       hashes \in Optional(RecordedHashes)}
    /\ ret = [op |-> "none"]
    /\ storage = NoStorage
    /\ old = [signatures |-> <<>>, signed |-> NoObject]
    /\ fresh = {}

\* the test assigns the attributes of a record directly
SetLength(length) ==
    /\ signed' = [signed EXCEPT !.length = length]
    /\ ret' = [op |-> "length", args |-> length, outcome |-> Return(None)]
    /\ old' = Snapshot_of_state
    /\ UNCHANGED storage
    /\ UNCHANGED <<signatures, fresh, set_order>>

SetHashes(hashes) ==
    /\ signed' = [signed EXCEPT !.hashes = hashes]
    /\ ret' = [op |-> "hashes", args |-> hashes, outcome |-> Return(None)]
    /\ old' = Snapshot_of_state
    /\ UNCHANGED storage
    /\ UNCHANGED <<signatures, fresh, set_order>>

VerifyLengthAndHashes(content) ==
    /\ ret' = [op |-> "verify_length_and_hashes", args |-> content,
               outcome |-> verify_length_and_hashes(signed, content)]
    /\ old' = Snapshot_of_state
    /\ UNCHANGED storage
    /\ UNCHANGED <<signatures, signed, fresh, set_order>>

NextIntegrity ==
    \/ \E length \in Optional(RecordedLengths) : SetLength(length)
    \/ \E hashes \in Optional(RecordedHashes) : SetHashes(hashes)
    \/ \E content \in Contents : VerifyLengthAndHashes(content)

SpecIntegrity == InitIntegrity /\ [][NextIntegrity]_vars

(***************************************************************************)
(* Metadata.to_file beside a reader of the path.  to_file serializes the   *)
(* Metadata into an unnamed temporary file and hands that file to          *)
(* persist_temp_file, which asks the storage backend to put it at the      *)
(* path.  The temporary file has no name, so no backend can rename it into *)
(* place: a backend either copies it through the open destination file, as *)
(* the default FilesystemBackend does, or replaces the destination in one  *)
(* step by means of its own.  The serialized document is written in        *)
(* pieces: the opening brace, the body, the closing brace.                 *)
(***************************************************************************)
JSONSerializer_serialize(self) == <<"{", Metadata_to_dict(self), "}">>

StorageBackends == {"FilesystemBackend", "replacing"}

InitFile ==
    /\ set_order \in Orders(KeyIds)
    /\ signatures = <<>>
    /\ signed = Meta_init("timestamp", 1, "1.0.0", 1, MetaOfTimestamp, EmptyDict).val
    /\ ret = [op |-> "init", args |-> 1, outcome |-> Return("Metadata")]
    /\ storage = NoStorage
    /\ old = [signatures |-> <<>>, signed |-> NoObject]
    /\ fresh = {}

\* lines 198-199: the document goes into the temporary file
ToFileWrite(storage_backend) ==
    /\ storage.pc = "idle"
    /\ storage' = [storage EXCEPT !.pc = "persist",
                                  !.temp_file = Some(JSONSerializer_serialize(Self)),
                                  !.storage_backend = storage_backend]
    /\ old' = Snapshot_of_state
    /\ UNCHANGED <<signatures, signed, ret, fresh, set_order>>

\* line 200 with a backend that replaces the file at the path in one step
PutReplace ==
    /\ storage.pc = "persist"
    /\ storage.storage_backend = "replacing"
    /\ storage' = [storage EXCEPT !.pc = "idle", !.temp_file = None,
                                  !.file = storage.temp_file]
    /\ ret' = [op |-> "to_file", args |-> storage.storage_backend, outcome |-> Return(None)]
    /\ UNCHANGED <<signatures, signed, old, fresh, set_order>>

\* line 200 with a backend that opens the path for writing, which empties it
PutOpen ==
    /\ storage.pc = "persist"
    /\ storage.storage_backend = "FilesystemBackend"
    /\ storage' = [storage EXCEPT !.pc = "copy", !.file = Some(<<>>)]
    /\ UNCHANGED <<signatures, signed, ret, old, fresh, set_order>>

\* ... and copies the temporary file into it piece by piece
PutCopy ==
    /\ storage.pc = "copy"
    /\ Len(storage.file.val) < Len(storage.temp_file.val)
    /\ storage' = [storage EXCEPT !.file =
           Some(Append(storage.file.val, storage.temp_file.val[Len(storage.file.val) + 1]))]
    /\ UNCHANGED <<signatures, signed, ret, old, fresh, set_order>>

PutClose ==
    /\ storage.pc = "copy"
    /\ Len(storage.file.val) = Len(storage.temp_file.val)
    /\ storage' = [storage EXCEPT !.pc = "idle", !.temp_file = None]
    /\ ret' = [op |-> "to_file", args |-> storage.storage_backend, outcome |-> Return(None)]
    /\ UNCHANGED <<signatures, signed, old, fresh, set_order>>

\* another process reads the file at the path, at any moment
ReadFile ==
    /\ ret' = [op |-> "read", args |-> storage.pc, outcome |-> Return(storage.file)]
    /\ UNCHANGED <<signatures, signed, old, fresh, set_order, storage>>

NextFile ==
    \/ \E storage_backend \in StorageBackends : ToFileWrite(storage_backend)
    \/ PutReplace
    \/ PutOpen
    \/ PutCopy
    \/ PutClose
    \/ ReadFile
    \/ (storage.pc = "idle" /\ BumpVersion)

SpecFile == InitFile /\ [][NextFile]_vars

(***************************************************************************)
(* Signing and verifying beside the operations that change a payload.  A   *)
(* Timestamp or a Root in an envelope without signatures is signed,        *)
(* changed and verified in any order, up to MaxCalls sign calls and calls  *)
(* on the payload.  For every keyid, fresh remembers whether the key has   *)
(* signed, the payload its latest signature was made over, and whether an  *)
(* operation has changed the payload since; it also counts the calls.      *)
(***************************************************************************)
MaxCalls == 4

SignedPayloads ==
    {Meta_init("timestamp", 1, "1.0.0", 1, MetaOfTimestamp, EmptyDict).val,
     Root_init(1, "1.0.0", 1, TRUE, "k1" :> KeyObject("k1"),
               [r \in RoleNames |-> RoleObject({"k1"})], EmptyDict).val}

NeverSigned ==
    [calls |-> 0, key |-> [k \in KeyIds |-> [state |-> "unsigned", over |-> EmptyDict]]]

InitResign ==
    /\ set_order \in Orders(KeyIds)
    /\ signatures = <<>>
    /\ signed \in SignedPayloads
    /\ ret = [op |-> "none"]
    /\ storage = NoStorage
    /\ old = [signatures |-> <<>>, signed |-> NoObject]
    /\ fresh = NeverSigned

\* a call on the payload: what it leaves, and which signatures it outdates
PayloadCall(op, args, outcome, self) ==
    /\ signed' = self
    /\ ret' = [op |-> op, args |-> args, outcome |-> outcome]
    /\ fresh' = [calls |-> fresh.calls + 1,
                 key |-> [k \in KeyIds |->
                     IF fresh.key[k].state = "signed" /\ to_dict(self) # to_dict(signed)
                     THEN [fresh.key[k] EXCEPT !.state = "changed"]
                     ELSE fresh.key[k]]]
    /\ old' = Snapshot_of_state
    /\ UNCHANGED <<signatures, set_order, storage>>

ResignBumpVersion ==
    /\ fresh.calls < MaxCalls
    /\ signed.version < MaxVersion
    /\ PayloadCall("bump_version", None, Return(None), bump_version(signed))

ResignBumpExpiration(delta) ==
    /\ fresh.calls < MaxCalls
    /\ signed.expires + delta <= MaxExpires
    /\ PayloadCall("bump_expiration", Some(delta), Return(None),
                   bump_expiration(signed, delta))

ResignUpdate(version) ==
    /\ fresh.calls < MaxCalls
    /\ signed.type = "timestamp"
    /\ PayloadCall("update", Some(version), Return(None),
                   Timestamp_update(signed, version, None, None))

\* the key is passed as a Key object, as Root.to_dict needs it
ResignAddKey(role, keyid) ==
    /\ fresh.calls < MaxCalls
    /\ signed.type = "root"
    /\ LET r == Root_add_key(signed, role, keyid, KeyObject(keyid))
       IN  PayloadCall("add_key", Some(keyid), r.outcome, r.self)

ResignRemoveKey(role, keyid) ==
    /\ fresh.calls < MaxCalls
    /\ signed.type = "root"
    /\ LET r == Root_remove_key(signed, role, keyid)
       IN  PayloadCall("remove_key", Some(keyid), r.outcome, r.self)

ResignSign(keyid, append) ==
    /\ fresh.calls < MaxCalls
    /\ append => Len(signatures) < MaxSigs
    /\ LET r == sign(Self, [keyid |-> keyid, scheme |-> "ed25519"], append,
                     DefaultSerializer)
       IN  /\ signatures' = r.signatures
           /\ ret' = [op |-> "sign", args |-> Some(keyid), outcome |-> r.outcome]
           /\ fresh' = [calls |-> fresh.calls + 1,
                        key |-> IF r.outcome.kind = "raise" THEN fresh.key
                                ELSE [fresh.key EXCEPT ![keyid] =
                                         [state |-> "signed", over |-> to_dict(signed)]]]
    /\ old' = Snapshot_of_state
    /\ UNCHANGED <<signed, set_order, storage>>

ResignVerify(keyid) ==
    /\ LET r == verify(Self, GenuineKey(keyid), DefaultSerializer)
       IN  ret' = [op |-> "verify", args |-> Some(keyid), outcome |-> r.outcome]
    /\ old' = Snapshot_of_state
    /\ UNCHANGED <<signatures, signed, fresh, set_order, storage>>

NextResign ==
    \/ ResignBumpVersion
    \/ \E delta \in {0, 1} : ResignBumpExpiration(delta)
    \/ \E version \in 1..2 : ResignUpdate(version)
    \/ \E keyid \in KeyIds : ResignAddKey("root", keyid)
    \/ \E keyid \in KeyIds : ResignRemoveKey("root", keyid)
    \/ \E keyid \in KeyIds, append \in BOOLEAN : ResignSign(keyid, append)
    \/ \E keyid \in KeyIds : ResignVerify(keyid)

SpecResign == InitResign /\ [][NextResign]_vars

(***************************************************************************)
(* Encoding and decoding of the entities with unrecognized fields: an      *)
(* object of a class made by its constructor with a map of unrecognized    *)
(* fields is encoded by to_dict, and a wire record of the class with       *)
(* further keys is decoded by from_dict.  The constructors take any map:   *)
(* its keys may be names of attributes the class declares.                 *)
(***************************************************************************)
Classes == {"Key", "Role", "DelegatedRole", "Delegations", "Timestamp"}

\* the keys to_dict writes for the attributes of a class
DeclaredFields(class) ==
    CASE class = "Key" -> {"keytype", "scheme", "keyval"}
      [] class = "Role" -> {"keyids", "threshold"}
      [] class = "DelegatedRole" -> {"name", "terminating", "keyids", "threshold", "paths"}
      [] class = "Delegations" -> {"keys", "roles"}
      [] class = "Timestamp" -> {"_type", "version", "spec_version", "expires", "meta"}

\* the value an unrecognized field of each name holds
UnrecognizedValue(name) ==
    CASE name \in {"foo", "bar", "keytype", "name"} -> "other"
      [] name \in {"version", "threshold"} -> 9
      [] name = "keyids" -> <<"k9">>
      [] name \in {"roles", "paths"} -> <<>>

UnrecognizedNames(class) ==
    {"foo", "bar"} \cup
    (CASE class = "Key" -> {"keytype"}
       [] class = "Role" -> {"keyids", "threshold"}
       [] class = "DelegatedRole" -> {"name", "paths"}
       [] class = "Delegations" -> {"roles"}
       [] class = "Timestamp" -> {"version"})

UnrecognizedFields(names) == {[n \in D |-> UnrecognizedValue(n)] : D \in SUBSET names}

\* ClassName(..., unrecognized_fields)
Constructed_of(class, unrecognized_fields) ==
    CASE class = "Key" ->
             Key_init("ed25519", "ed25519", [public |-> PublicOf("k1")], unrecognized_fields)
      [] class = "Role" -> Role_init(<<"k1">>, 1, unrecognized_fields)
      [] class = "DelegatedRole" ->
             DelegatedRole_init("role1", <<"k1">>, 1, FALSE, Some(<<"a/*">>), None,
                                unrecognized_fields)
      [] class = "Delegations" ->
             Return(Delegations_init(
                 "k1" :> KeyObject("k1"),
                 <<DelegatedRole_init("role1", <<"k1">>, 1, FALSE, None, None, EmptyDict).val>>,
                 unrecognized_fields))
      [] class = "Timestamp" ->
             Meta_init("timestamp", 1, "1.0.0", 1, MetaOfTimestamp, unrecognized_fields)

\* self.to_dict()
to_dict_of(class, self) ==
    CASE class = "Key" -> Key_to_dict(self)
      [] class = "Role" -> Role_to_dict(self)
      [] class = "DelegatedRole" -> DelegatedRole_to_dict(self)
      [] class = "Delegations" -> Delegations_to_dict(self)
      [] class = "Timestamp" -> Timestamp_to_dict(self)

\* a wire record of the class, with further keys
WireRecord_of(class, extra) ==
    CASE class = "Key" -> KeyRecord("k1", extra)
      [] class = "Role" -> RoleRecord(<<"k1">>, extra)
      [] class = "DelegatedRole" ->
             DelegatedRoleRecord(<<"k1">>, [paths |-> <<"a/*">>], EmptyDict, extra)
      [] class = "Delegations" ->
             DelegationsRecord(<<DelegatedRoleRecord(<<"k1">>, EmptyDict, EmptyDict, extra)>>,
                               extra)
      [] class = "Timestamp" -> MetaRecord("timestamp", 1, extra)

\* ClassName.from_dict(record)
from_dict_of(class, record) ==
    CASE class = "Key" -> Key_from_dict(record)
      [] class = "Role" -> Role_from_dict(record)
      [] class = "DelegatedRole" -> DelegatedRole_from_dict(record)
      [] class = "Delegations" -> Delegations_from_dict(record)
      [] class = "Timestamp" -> Timestamp_from_dict(record)

Encode(class, unrecognized_fields) ==
    /\ LET self == Constructed_of(class, unrecognized_fields).val
       IN  ret' = [op |-> "to_dict", class |-> class, args |-> self,
                   outcome |-> Return(to_dict_of(class, self))]
    /\ NoObjectChanged

Decode(class, extra) ==
    /\ LET record == WireRecord_of(class, extra)
       IN  ret' = [op |-> "from_dict", class |-> class, args |-> record,
                   outcome |-> from_dict_of(class, record)]
    /\ NoObjectChanged

NextEncode ==
    \/ \E class \in Classes :
         \E unrecognized_fields \in UnrecognizedFields(UnrecognizedNames(class)) :
            Encode(class, unrecognized_fields)
    \/ \E class \in Classes, extra \in UnrecognizedFields({"foo", "bar"}) :
         Decode(class, extra)

SpecEncode == Init /\ [][NextEncode]_vars

(***************************************************************************)
(* Properties of the envelope, stated of the specification Spec           *)
(***************************************************************************)
Keyids(signature_list) == [i \in DOMAIN signature_list |-> signature_list[i].keyid]

\* the envelope as it was when the last call began
OldSelf == Metadata_init(old.signed, old.signatures)

\* how many signatures of the envelope carry the keyid of key
Matching(self, key) == Len(signatures_for_keyid(self, key))

SignReturned == ret.op = "sign" /\ ret.outcome.kind = "return"

\* C1: in every reachable state of the envelope no two entries of the signature
\* list share a keyid.
C1_UniqueKeyids == IsDuplicateFree(Keyids(signatures))

\* C2: from_dict on a wire record whose signature list holds two entries with the
\* same keyid raises ValueError and builds no envelope.
C2_DuplicateKeyidsRejected ==
    (ret.op = "from_dict" /\ ~IsDuplicateFree(Keyids(ret.args["signatures"])))
        => (ret.outcome = Raise("ValueError") /\ ~Constructed)

\* C3: verify calls the cryptographic check only when exactly one signature carries
\* the key's keyid; with none, or with two or more, it raises instead of returning
\* a boolean; the signature list and the payload are left as they were.
C3_VerifyNeedsExactlyOne ==
    ret.op = "verify" =>
        /\ ret.checked => Matching(OldSelf, ret.args.key) = 1
        /\ Matching(OldSelf, ret.args.key) # 1 => ret.outcome = Raise("Error")
        /\ signatures = old.signatures
        /\ signed = old.signed

C3_Witness ==
    /\ ret.op = "verify"
    /\ Matching(OldSelf, ret.args.key) >= 2
    /\ ret.outcome = Raise("Error")

\* C4: once key K has signed with the default canonicalizer and the payload has not
\* changed since, verify with K's public key and the default canonicalizer returns
\* true whenever exactly one signature carries K's keyid.
C4_SignThenVerify ==
    (/\ ret.op = "verify"
     /\ ret.args.signed_serializer = DefaultSerializer
     /\ ret.args.key = GenuineKey(ret.args.key.keyid)
     /\ ret.args.key.keyid \in fresh
     /\ Matching(Self, ret.args.key) = 1)
        => ret.outcome = Return(TRUE)

C4_Witness ==
    /\ ret.op = "verify"
    /\ ret.args.signed_serializer = DefaultSerializer
    /\ ret.args.key = GenuineKey(ret.args.key.keyid)
    /\ ret.args.key.keyid \in fresh
    /\ Matching(Self, ret.args.key) = 1
    /\ Len(signatures) = 2
    /\ ret.outcome = Return(TRUE)

\* C5 as stated: after sign(append=False) the list holds exactly the signature
\* returned, and verify for the key of every earlier signature raises the
\* no-matching-signature error.
C5_EveryEarlierKeyUnverifiable ==
    (SignReturned /\ ~ret.args.append) =>
        /\ signatures = <<ret.outcome.val>>
        /\ \A i \in DOMAIN old.signatures :
              verify(Self, GenuineKey(old.signatures[i].keyid), DefaultSerializer).outcome
                  = Raise("Error")

\* C5 amended: after sign(append=False) the list holds exactly the signature
\* returned, and verify for the key of every earlier signature raises the
\* no-matching-signature error unless that key is the signer's own, for which
\* exactly the new signature matches.
C5_ReplaceCollapses ==
    (SignReturned /\ ~ret.args.append) =>
        /\ signatures = <<ret.outcome.val>>
        /\ ret.outcome.val.keyid = ret.args.signer.keyid
        /\ \A i \in DOMAIN old.signatures :
              IF old.signatures[i].keyid = ret.args.signer.keyid
              THEN signatures_for_keyid(Self, GenuineKey(old.signatures[i].keyid))
                       = <<ret.outcome.val>>
              ELSE verify(Self, GenuineKey(old.signatures[i].keyid),
                          DefaultSerializer).outcome = Raise("Error")

C5_Witness ==
    /\ SignReturned
    /\ ~ret.args.append
    /\ Len(old.signatures) = 2
    /\ \E i \in DOMAIN old.signatures : old.signatures[i].keyid # ret.args.signer.keyid
    /\ Len(signatures) = 1

\* C6: sign(append=True) leaves the old list, unchanged and in order, followed by
\* the signature returned; a document signed by K to which K2 appends a signature
\* has exactly 2 signatures and verifies for K and for K2.
C6_AppendGrows ==
    (SignReturned /\ ret.args.append) =>
        /\ signatures = Append(old.signatures, ret.outcome.val)
        /\ (/\ Len(old.signatures) = 1
            /\ old.signatures[1].keyid \in fresh
            /\ old.signatures[1].keyid # ret.args.signer.keyid
            /\ ret.args.signed_serializer = DefaultSerializer)
              => /\ Len(signatures) = 2
                 /\ \A i \in 1..2 :
                       verify(Self, GenuineKey(signatures[i].keyid),
                              DefaultSerializer).outcome = Return(TRUE)

C6_Witness ==
    /\ SignReturned
    /\ ret.args.append
    /\ Len(old.signatures) = 1
    /\ old.signatures[1].keyid \in fresh
    /\ old.signatures[1].keyid # ret.args.signer.keyid
    /\ ret.args.signed_serializer = DefaultSerializer
    /\ Len(signatures) = 2

CryptoErrors == {"FormatError", "CryptoError", "UnsupportedAlgorithmError"}

\* C7: no error type of the crypto collaborator leaves verify: every failure of
\* the cryptographic check reaches the caller as the one signature-invalid error.
C7_NoCryptoErrorLeaks ==
    (ret.op = "verify" /\ ret.outcome.kind = "raise") => ret.outcome.err \notin CryptoErrors

\* C8: a sign call that raises, in append or in replace mode, leaves the signature
\* list exactly as it was.
C8_FailedSignKeepsList ==
    (ret.op = "sign" /\ ret.outcome.kind = "raise") =>
        /\ signatures = old.signatures
        /\ signed = old.signed

C8_Witness ==
    /\ ret.op = "sign"
    /\ ret.outcome.kind = "raise"
    /\ ~ret.args.append
    /\ Len(old.signatures) = 2

(***************************************************************************)
(* Properties of the Root, stated of the specification SpecRoot           *)
(***************************************************************************)
RootCall == ret.op \in {"add_key", "remove_key"}

\* C9: an add_key or remove_key call that raises leaves every role's key-id set
\* and the key store as they were, for every Root the constructor accepts.
C9_FailedCallKeepsRoot ==
    (RootCall /\ ret.outcome.kind = "raise") => signed = old.signed

\* C10: remove_key with a keyid that is not in the named role's key-id set raises
\* KeyError, also when the key store holds the keyid for another role.
C10_RemoveAbsentRaises ==
    (/\ ret.op = "remove_key"
     /\ ret.args.role \in DOMAIN old.signed.roles
     /\ ret.args.keyid \notin old.signed.roles[ret.args.role].keyids)
        => /\ ret.outcome = Raise("KeyError")
           /\ signed = old.signed

C10_Witness ==
    /\ ret.op = "remove_key"
    /\ ret.args.role \in DOMAIN old.signed.roles
    /\ ret.args.keyid \notin old.signed.roles[ret.args.role].keyids
    /\ ret.args.keyid \in DOMAIN old.signed.keys
    /\ \E r \in DOMAIN old.signed.roles : ret.args.keyid \in old.signed.roles[r].keyids
    /\ ret.outcome = Raise("KeyError")

Referenced(root, keyid) == \E r \in DOMAIN root.roles : keyid \in root.roles[r].keyids

RemoveReturned == ret.op = "remove_key" /\ ret.outcome.kind = "return"

\* C11 as stated: after a successful remove_key the keyid is not in the role's
\* key-id set, and the key store holds the keyid if and only if some role still
\* references it.
C11_StoredIffReferenced ==
    RemoveReturned =>
        /\ ret.args.keyid \notin signed.roles[ret.args.role].keyids
        /\ ret.args.keyid \in DOMAIN signed.keys <=> Referenced(signed, ret.args.keyid)

\* C11 amended: after a successful remove_key the keyid is not in the role's
\* key-id set; when no role references the keyid any more it is purged from the
\* key store, and otherwise the key store is unchanged, so the key is retained
\* when the store held it.
C11_PurgedOrRetained ==
    RemoveReturned =>
        /\ ret.args.keyid \notin signed.roles[ret.args.role].keyids
        /\ signed.roles = RemoveFromRole(old.signed, ret.args.role, ret.args.keyid).roles
        /\ IF Referenced(signed, ret.args.keyid)
           THEN signed.keys = old.signed.keys
           ELSE signed.keys = Without(old.signed.keys, {ret.args.keyid})

C11_Witness ==
    /\ RemoveReturned
    /\ ~Referenced(signed, ret.args.keyid)
    /\ ret.args.keyid \in DOMAIN old.signed.keys
    /\ ret.args.keyid \notin DOMAIN signed.keys
    /\ DOMAIN signed.keys # {}

\* C12: add_key is idempotent: a second call with the same role and key succeeds
\* and leaves the role's key-id set and the key store as the first call left them.
C12_AddKeyIdempotent ==
    (ret.op = "add_key" /\ ret.outcome.kind = "return") =>
        LET again == Root_add_key(signed, ret.args.role, ret.args.keyid,
                                  KeyMetadata(ret.args.keyid))
        IN  /\ again.outcome = Return(None)
            /\ again.self = signed

C12_Witness ==
    /\ ret.op = "add_key"
    /\ ret.outcome.kind = "return"
    /\ ret.args.keyid \notin old.signed.roles[ret.args.role].keyids
    /\ ret.args.keyid \in signed.roles[ret.args.role].keyids
    /\ signed.keys[ret.args.keyid] = KeyMetadata(ret.args.keyid)

\* C13: from a Root whose roles reference only keyids of the key store, no sequence
\* of add_key and remove_key calls leads to a role that references a keyid missing
\* from the key store.
C13_KeysOfRolesStored == KeysOfRolesStored(signed)

C13_Witness ==
    /\ RemoveReturned
    /\ Referenced(signed, ret.args.keyid)
    /\ ret.args.keyid \in DOMAIN signed.keys

(***************************************************************************)
(* Properties of decoding, stated of the specification SpecLoad            *)
(***************************************************************************)
SignedAttributes == {"type", "version", "spec_version", "expires", "unrecognized_fields"}

AttributesOf(type) ==
    CASE type = "root" -> {"consistent_snapshot", "keys", "roles"}
      [] type = "targets" -> {"targets", "delegations"}
      [] type \in {"timestamp", "snapshot"} -> {"meta"}

\* obj is an instance of the payload class whose _signed_type is type
IsVariant(obj, type) ==
    /\ obj.type = type
    /\ DOMAIN obj = SignedAttributes \cup AttributesOf(type)

\* C14: Metadata.from_dict builds the payload class named by the "_type" of
\* the record: a valid root record gives a Root, a valid timestamp record a
\* Timestamp, a valid snapshot record a Snapshot, a valid targets record a
\* Targets; a record with any other "_type" raises ValueError and no envelope
\* is built.
C14_DispatchOnType ==
    ret.op = "from_dict" =>
        LET type == ret.args["signed"]["_type"]
        IN  /\ ret.args \in ValidRecords =>
                   ret.outcome = Return("Metadata") /\ IsVariant(signed, type)
            /\ ret.outcome.kind = "return" => IsVariant(signed, type)
            /\ type \notin SignedTypes =>
                   /\ ret.outcome = Raise("ValueError")
                   /\ ~Constructed
                   /\ signatures = <<>>

C14_Witness ==
    /\ ret.op = "from_dict"
    /\ ret.args \in ValidRecords
    /\ ret.args["signed"]["_type"] = "snapshot"
    /\ Constructed
    /\ signed.type = "snapshot"

\* C15: for every valid wire record x of the four payload types, with or
\* without unrecognized fields and optional fields, to_dict of the envelope
\* that from_dict(x) builds equals x.
C15_RoundTrip ==
    (ret.op = "from_dict" /\ ret.args \in ValidRecords /\ Constructed) =>
        Metadata_to_dict(Self) = ret.args

(***************************************************************************)
(* Properties of the payload, stated of the specification SpecSigned       *)
(***************************************************************************)
\* C16: every payload has version >= 1 in every reachable state: a
\* constructor call or a from_dict call with version <= 0 raises ValueError
\* and builds nothing, and no bump_version, bump_expiration, update, add_key
\* or remove_key call leaves a version below 1.
C16_VersionAtLeastOne ==
    /\ Constructed => signed.version >= 1
    /\ (ret.op = "init" /\ ret.args.version <= 0) =>
           ret.outcome = Raise("ValueError") /\ ~Constructed
    /\ (ret.op = "from_dict" /\ ret.args["signed"]["version"] <= 0) =>
           ret.outcome = Raise("ValueError") /\ ~Constructed

C16_Witness ==
    /\ ret.op = "init"
    /\ ret.args.version = 0
    /\ ret.outcome = Raise("ValueError")
    /\ ~Constructed

C18_BumpVersionPlusOne ==
    ret.op = "bump_version" =>
        /\ signed.version = old.signed.version + 1
        /\ DOMAIN signed = DOMAIN old.signed
        /\ \A f \in DOMAIN signed \ {"version"} : signed[f] = old.signed[f]

C18_Witness ==
    /\ ret.op = "bump_version"
    /\ signed.type = "root"
    /\ old.signed.version = 1
    /\ signed.version = 2

\* C19: bump_expiration adds its delta to expires, 1 day when no delta is
\* given, and leaves version and everything else alone; so a bump by d1
\* followed by a bump by d2 leaves what one bump by d1 + d2 leaves.
C19_BumpExpirationAdds ==
    ret.op = "bump_expiration" =>
        LET d1 == IF ret.args.none THEN 1 ELSE ret.args.val
        IN  /\ signed.expires = old.signed.expires + d1
            /\ signed.version = old.signed.version
            /\ signed = [old.signed EXCEPT !.expires = signed.expires]
            /\ \A d2 \in Deltas :
                   /\ bump_expiration(signed, d2) = bump_expiration(old.signed, d1 + d2)
                   /\ bump_expiration(signed, d2).expires = old.signed.expires + d1 + d2

\* a default bump that follows an earlier bump
C19_Witness ==
    /\ ret.op = "bump_expiration"
    /\ ret.args.none
    /\ old.signed.expires = 2
    /\ signed.expires = 3

\* C20: after Timestamp.update the meta dict has exactly one entry, under
\* "snapshot.json", made of the version, length and hashes passed and of
\* nothing else.
C20_SingleEntryReplaced ==
    (ret.op = "update" /\ signed.type = "timestamp") =>
        /\ DOMAIN signed.meta = {"snapshot.json"}
        /\ LET entry == signed.meta["snapshot.json"]
           IN  /\ entry.version = ret.args.version
               /\ "length" \in DOMAIN entry <=> ~ret.args.length.none
               /\ "hashes" \in DOMAIN entry <=> ~ret.args.hashes.none
               /\ DOMAIN entry \subseteq {"version", "length", "hashes"}

(***************************************************************************)
(* Properties of the Snapshot, stated of the specification SpecSnapshot    *)
(***************************************************************************)
\* entry is the record made of the version, and of the length and hashes that
\* are not None, of the update call with arguments args
IsRecordOf(entry, args) ==
    /\ DOMAIN entry = {"version"} \cup (IF args.length.none THEN {} ELSE {"length"})
                                  \cup (IF args.hashes.none THEN {} ELSE {"hashes"})
    /\ entry.version = args.version
    /\ ~args.length.none => entry.length = args.length.val
    /\ ~args.hashes.none => entry.hashes = args.hashes.val

\* C21: after any sequence of Snapshot.update calls, meta holds under
\* "<r>.json", for every role r updated, the record of the latest update for
\* r; every entry the Snapshot started with and no update targeted has its
\* first value; and no call takes a key out of meta.
C21_LatestUpdateKept ==
    /\ \A r \in DOMAIN fresh.latest :
           /\ MetadataFn(r) \in DOMAIN signed.meta
           /\ IsRecordOf(signed.meta[MetadataFn(r)], fresh.latest[r])
    /\ \A k \in DOMAIN fresh.original :
           /\ k \in DOMAIN signed.meta
           /\ k \notin {MetadataFn(r) : r \in DOMAIN fresh.latest} =>
                  signed.meta[k] = fresh.original[k]
    /\ ret.op = "update" => DOMAIN old.signed.meta \subseteq DOMAIN signed.meta

\* both roles updated, targets more than once, beside an entry never targeted
C21_Witness ==
    /\ ret.op = "update"
    /\ ret.args.rolename = "targets"
    /\ DOMAIN fresh.latest = UpdatedRoles
    /\ "role2.json" \in DOMAIN signed.meta
    /\ "role1.json" \in DOMAIN old.signed.meta
    /\ old.signed.meta["targets.json"] # fresh.original["targets.json"]
    /\ signed.meta["targets.json"] # old.signed.meta["targets.json"]

(***************************************************************************)
(* Properties of the Targets, stated of the specification SpecTargets      *)
(***************************************************************************)
\* C22: Targets.update(filename, fileinfo) makes fileinfo the entry of
\* filename, new or in place of the old one, and leaves every other entry of
\* targets, the delegations, version, expires and the unrecognized fields as
\* they were.
C22_UpdateSetsOneEntry ==
    ret.op = "update" =>
        /\ DOMAIN signed.targets = DOMAIN old.signed.targets \cup {ret.args.filename}
        /\ signed.targets[ret.args.filename] = ret.args.fileinfo
        /\ \A k \in DOMAIN old.signed.targets \ {ret.args.filename} :
               signed.targets[k] = old.signed.targets[k]
        /\ DOMAIN signed = DOMAIN old.signed
        /\ \A f \in DOMAIN signed \ {"targets"} : signed[f] = old.signed[f]

\* an entry overwritten beside another entry, in a Targets with delegations
\* and an unrecognized field
C22_Witness ==
    /\ ret.op = "update"
    /\ ret.args.filename = "file1.txt"
    /\ old.signed.targets["file1.txt"] # ret.args.fileinfo
    /\ "file2.txt" \in DOMAIN old.signed.targets
    /\ Truthy(signed.delegations)
    /\ signed.unrecognized_fields # EmptyDict

(***************************************************************************)
(* Properties of Key, Role, DelegatedRole and Delegations, stated of the   *)
(* specification SpecEntity                                                *)
(***************************************************************************)
\* the last call raised the exception e
Raised(e) == ret.outcome.kind = "raise" /\ ret.outcome = Raise(e)

\* C23: a Role or DelegatedRole constructor given a keyids list that holds a
\* keyid twice raises ValueError; when the constructor returns, the keyids
\* set of the role has as many elements as the list.
C23_RepeatedKeyidRefused ==
    ret.op \in {"Role", "DelegatedRole"} =>
        /\ ~IsDuplicateFree(ret.args.keyids) => Raised("ValueError")
        /\ ret.outcome.kind = "return" =>
               /\ Cardinality(ret.outcome.val.keyids) = Len(ret.args.keyids)
               /\ ret.outcome.val.keyids = Range(ret.args.keyids)
        /\ (ret.op = "Role" /\ IsDuplicateFree(ret.args.keyids)) =>
               ret.outcome.kind = "return"

C23_Witness ==
    /\ ret.op = "DelegatedRole"
    /\ ret.args.keyids = <<"k1", "k2", "k1">>
    /\ ret.args.paths.none
    /\ ret.args.path_hash_prefixes.none
    /\ Raised("ValueError")

\* both lists given and neither empty
BothSet(paths, path_hash_prefixes) ==
    /\ ~paths.none /\ paths.val # <<>>
    /\ ~path_hash_prefixes.none /\ path_hash_prefixes.val # <<>>

\* C24, as the claim states it: the DelegatedRole constructor raises
\* ValueError exactly when paths and path_hash_prefixes are both given
\* non-empty, and returns in every other case.
C24_FailsExactlyWhenBothSet ==
    ret.op = "DelegatedRole" =>
        (Raised("ValueError")
            <=> BothSet(ret.args.paths, ret.args.path_hash_prefixes))

\* C24, amended: for a keyids list without a repeated keyid, the
\* DelegatedRole constructor raises ValueError exactly when paths and
\* path_hash_prefixes are both given non-empty and returns in every other
\* case; a list with a repeated keyid is refused whatever the two lists are;
\* no DelegatedRole a constructor returns has both set non-empty.
C24_FailsWhenBothSetOrRepeated ==
    ret.op = "DelegatedRole" =>
        /\ IsDuplicateFree(ret.args.keyids) =>
               /\ BothSet(ret.args.paths, ret.args.path_hash_prefixes) =>
                      Raised("ValueError")
               /\ ~BothSet(ret.args.paths, ret.args.path_hash_prefixes) =>
                      /\ ret.outcome.kind = "return"
                      /\ ret.outcome.val.paths = ret.args.paths
                      /\ ret.outcome.val.path_hash_prefixes = ret.args.path_hash_prefixes
        /\ ~IsDuplicateFree(ret.args.keyids) => Raised("ValueError")
        /\ ret.outcome.kind = "return" =>
               ~BothSet(ret.outcome.val.paths, ret.outcome.val.path_hash_prefixes)

\* one list given non-empty beside the other given empty: the constructor returns
C24_Witness ==
    /\ ret.op = "DelegatedRole"
    /\ ret.args.keyids = <<"k1", "k2">>
    /\ ret.args.paths = Some(<<>>)
    /\ ret.args.path_hash_prefixes = Some(<<"ab">>)
    /\ ret.outcome.kind = "return"

RequiredKeys(op) ==
    CASE op = "Role.from_dict" -> RoleKeys
      [] op = "DelegatedRole.from_dict" -> DelegatedRoleKeys
      [] op = "Delegations.from_dict" -> DelegationsKeys
      [] op = "Key.from_dict" -> KeyKeys

\* C25: from_dict of Role, DelegatedRole, Delegations and Key, on a record
\* that lacks one of the required keys of the class, raises KeyError and
\* builds nothing, whichever key it is; Delegations.from_dict accepts the
\* record with no key and no role.
C25_MissingKeyRefused ==
    ret.op \in {"Role.from_dict", "DelegatedRole.from_dict",
                "Delegations.from_dict", "Key.from_dict"} =>
        /\ ~(RequiredKeys(ret.op) \subseteq DOMAIN ret.args) =>
               Raised("KeyError")
        /\ (ret.op = "Delegations.from_dict"
              /\ ret.args = [keys |-> EmptyDict, roles |-> <<>>]) =>
               ret.outcome = Return(Delegations_init(EmptyDict, <<>>, EmptyDict))

C25_Witness ==
    /\ ret.op = "DelegatedRole.from_dict"
    /\ DOMAIN ret.args = (DelegatedRoleKeys \ {"terminating"}) \cup {"paths"}
    /\ Raised("KeyError")

(***************************************************************************)
(* Properties of the integrity records, stated of SpecIntegrity           *)
(***************************************************************************)
\* what the record expects of a content: its length if one is recorded, and
\* under every recorded algorithm a digest the hash library computes and
\* that equals the recorded one
LengthAgrees(record, content) ==
    record.length.none \/ Len(content) = record.length.val

HashesAgree(record, content) ==
    \/ record.hashes.none
    \/ \A algo \in DOMAIN record.hashes.val :
          /\ algo \in SupportedAlgorithms
          /\ record.hashes.val[algo] = <<algo, content>>

\* C26: verify_length_and_hashes(content) returns exactly when the recorded
\* length, if any, is the content's byte count and every recorded digest, if
\* any, is the content's digest under its algorithm; in every other case,
\* wrong length, wrong digest, unsupported or malformed algorithm label, it
\* raises LengthOrHashMismatchError; the record is left as it was.
C26_VerifiesLengthAndHashes ==
    ret.op = "verify_length_and_hashes" =>
        /\ (LengthAgrees(signed, ret.args) /\ HashesAgree(signed, ret.args))
               => ret.outcome = Return(None)
        /\ ~(LengthAgrees(signed, ret.args) /\ HashesAgree(signed, ret.args))
               => Raised("LengthOrHashMismatchError")
        /\ signed = old.signed

\* a malformed algorithm label beside a right length
C26_Witness ==
    /\ ret.op = "verify_length_and_hashes"
    /\ ret.args = <<7, 8>>
    /\ signed.type = "MetaFile"
    /\ signed.length = Some(2)
    /\ ~signed.hashes.none
    /\ DOMAIN signed.hashes.val = {"256"}
    /\ Raised("LengthOrHashMismatchError")

(***************************************************************************)
(* Properties of to_file, stated of SpecFile                               *)
(***************************************************************************)
\* a whole document: what the serializer makes of the Metadata at some version
IsDocument(content) ==
    \E version \in 1..MaxVersion :
        content = JSONSerializer_serialize(
                      Metadata_init(Meta_init("timestamp", version, "1.0.0", 1,
                                              MetaOfTimestamp, EmptyDict).val, <<>>))

\* C27: whenever a reader reads the path, also while to_file is under way,
\* it finds no file or a whole document, never a part of one.
C27_ReaderSeesWholeDocument ==
    ret.op = "read" => (ret.outcome.val.none \/ IsDocument(ret.outcome.val.val))

(***************************************************************************)
(* Properties of signatures under change, stated of SpecResign             *)
(***************************************************************************)
\* a verify call for keyid with exactly one signature of that key in the list
VerifiedOne(keyid) ==
    /\ ret.op = "verify"
    /\ ret.args = Some(keyid)
    /\ Matching(Self, GenuineKey(keyid)) = 1

\* C28, as the claim states it: once an operation has changed the payload
\* after key K signed it, verify with K returns false until K signs again.
C28_ChangedNeverVerifies ==
    \A keyid \in KeyIds :
        (VerifiedOne(keyid) /\ fresh.key[keyid].state = "changed")
            => ret.outcome = Return(FALSE)

\* C28, amended: after key K has signed, verify with K returns false for as
\* long as the payload differs from the payload K signed, whichever
\* operation made the difference, and true whenever the payload is the one
\* K signed: verify works on the payload as it is at the call.
C28_OutdatedNeverVerifies ==
    \A keyid \in KeyIds :
        (VerifiedOne(keyid) /\ fresh.key[keyid].state # "unsigned")
            => ret.outcome = Return(fresh.key[keyid].over = to_dict(signed))

\* a Root signed by k1, changed by add_key, and verified with k1 beside a
\* later signature of k2
C28_Witness ==
    /\ VerifiedOne("k1")
    /\ signed.type = "root"
    /\ "k2" \in signed.roles["root"].keyids
    /\ fresh.key["k1"].state = "changed"
    /\ fresh.key["k2"].state = "signed"
    /\ Len(signatures) = 2
    /\ ret.outcome = Return(FALSE)

(***************************************************************************)
(* Properties of the encodings, stated of SpecEncode                       *)
(***************************************************************************)
\* what to_dict writes for the attributes of self when self holds no
\* unrecognized field
DeclaredDict(class, self) ==
    to_dict_of(class, [self EXCEPT !.unrecognized_fields = EmptyDict])

\* C29: to_dict of a Key, Role, DelegatedRole, Delegations or Signed payload
\* writes every declared field with the value of its attribute, whatever
\* the unrecognized fields of the object are, also when one of them has the
\* name of a declared field; an object from_dict returns holds no declared
\* field name among its unrecognized fields.
C29_DeclaredFieldsKept ==
    /\ ret.op = "to_dict" =>
           \A field \in DeclaredFields(ret.class) :
               /\ field \in DOMAIN ret.outcome.val
               /\ ret.outcome.val[field] = DeclaredDict(ret.class, ret.args)[field]
    /\ (ret.op = "from_dict" /\ ret.outcome.kind = "return") =>
           DOMAIN ret.outcome.val.unrecognized_fields \cap DeclaredFields(ret.class) = {}

====
